---- MODULE Spec2Model ----
(***************************************************************************)
(* Axela: the digest generation and deduplication pipeline                 *)
(* (application/services/digest_service.py over the repositories of        *)
(* infrastructure/database/repository.py) and the in-memory message bus    *)
(* (infrastructure/bus/memory.py).                                         *)
(*                                                                         *)
(* The pipeline is a set of asyncio coroutines on one event loop.  A       *)
(* coroutine is interrupted only where it awaits something that really     *)
(* suspends: a database round trip, a collector's network call, a queue    *)
(* that is full.  Every action below is one such uninterrupted stretch;    *)
(* bus.publish on a queue with room does not suspend, so in the pipeline   *)
(* specification a publish belongs to the stretch that ends with it.       *)
(***************************************************************************)
EXTENDS Integers, Sequences, FiniteSets, TLC

(***************************************************************************)
(* Bounds of the model.                                                    *)
(***************************************************************************)
MaxDigests == 3        \* generate_digest calls that create a Digest row
MaxHash == 2           \* content hashes an item can take: 1..MaxHash

(***************************************************************************)
(* The administrative data the pipeline only reads: three active sources   *)
(* in two projects and an inactive one in a third.  Source 3 has a type    *)
(* for which no collector is registered.  Sources 1 and 2 have one remote  *)
(* item each.                                                              *)
(***************************************************************************)
Sources == {1, 2, 3, 4}
Items == {1, 2, 3, 4}
Hashes == 1..MaxHash
MsgIds == {7}
ItemCounts == {2}

SourceProject(s) == CASE s \in {1, 3} -> "p1" [] s = 2 -> "p2" [] OTHER -> "p3"
SourceType(s) == CASE s = 1 -> "jira" [] s = 2 -> "gmail" [] s = 3 -> "slack" [] OTHER -> "jira"
SourceIsActive(s) == s # 4
ItemSource(i) == CASE i = 3 -> 1 [] i = 4 -> 3 [] OTHER -> i
Registered == {"jira", "gmail"}
ProjectFilters == {{}, {"p1"}, {"p3"}}

NULL == 0

VARIABLES
    items,            \* items table: item -> content_hash, NULL when no row
    digests,          \* digests table: sequence of rows, the id is the index
    digest_items,     \* digest_items table (the shown-item ledger)
    last_synced_at,   \* sources.last_synced_at, as the digest whose run stamped it
    collector_errors, \* collector_errors table: sequence of rows
    clock,            \* the number of datetime.now() readings stored as sent_at
    status_log,       \* history: the statuses persisted for each digest, in order
    ready,            \* history: digests announced by a DigestReady event
    confirmed,        \* history: digests mark_digest_sent was called for
    fresh,            \* history: item -> digests whose run selected it as it now is
    gen,              \* the generate_digest coroutines
    mk                \* the mark_digest_sent coroutine

dbvars == <<items, digests, digest_items, last_synced_at, collector_errors, clock,
            status_log, ready, confirmed, fresh, gen, mk>>

(***************************************************************************)
(* The in-memory message bus (infrastructure/bus/memory.py).               *)
(***************************************************************************)
max_queue_size == 2
MaxEvents == 2
MaxQueueEvents == 4
MaxRegs == 2
MaxTasks == 2

EventTypes == {"CollectorFailed", "DigestReady"}
HandlerNames == {"h1", "h2"}
Publishers == {1, 2}

VARIABLES
    handlers,     \* self._handlers: event type -> list of registered handlers
    queue,        \* self._queue: the queued events, oldest first
    unfinished,   \* self._queue._unfinished_tasks: puts not yet matched by task_done()
    running,      \* self._running
    worker_task,  \* self._worker_task: NULL or a task of tasks
    tasks,        \* the _worker tasks created so far
    pub,          \* the coroutines calling publish / publish_nowait
    stopper,      \* the coroutine calling stop(); seen: the events accepted before it
    published,    \* the number of events handed to publish / publish_nowait
    accepted,     \* history: the events put in the queue, in order
    taken         \* history: the events taken from the queue, in order

busvars == <<handlers, queue, unfinished, running, worker_task, tasks, pub, stopper,
             published, accepted, taken>>

(***************************************************************************)
(* ErrorAlertService (application/services/error_alert_service.py).  Time  *)
(* is counted in units of 15 minutes.                                      *)
(***************************************************************************)
ALERT_COOLDOWN == 2
MaxTime == 4
MaxAlertEvents == 3

AlertSources == {1, 2}
AlertSlots == {1, 2}

VARIABLES
    last_alerts,  \* self._last_alerts: source -> time of the last alert, NULL when absent
    now_utc,      \* datetime.now(UTC)
    alert,        \* the handle_collector_failed coroutines
    alert_log     \* history: how each handled CollectorFailed event ended

alertvars == <<last_alerts, now_utc, alert, alert_log>>

(***************************************************************************)
(* The items table row by row (infrastructure/database/models.py and       *)
(* repository.py), the content hash (infrastructure/collectors/base.py)    *)
(* and the collector registry, each on its own.                            *)
(***************************************************************************)
MaxUpserts == 3

ItemSources == {1, 2}
ExternalIds == {"A-1", "A-2"}
\* What a collector returns for a remote item before and after it changed.
Payloads ==
    {[title |-> "t1", content |-> "c1", content_hash |-> "h1"],
     [title |-> "t2", content |-> "c2", content_hash |-> "h2"]}

VARIABLES
    item_rows,  \* the rows of the items table
    upserts,    \* upsert statements executed so far: the source of uuid4() and of now()
    returned,   \* the id the last upsert call returned
    batch       \* the upsert_many coroutine

itemvars == <<item_rows, upserts, returned, batch>>

MaxFieldValues == 2

VARIABLES
    hash_content,  \* the dict create_digest_item builds, as its key/value pairs in insertion order
    content_hash   \* the hash computed from it

hashvars == <<hash_content, content_hash>>

MaxRegistrations == 3
MaxInstances == 2

VARIABLES
    collectors,     \* CollectorRegistry._collectors: source type -> collector class
    instances,      \* the collector objects constructed so far
    resolved,       \* the last call of the registry and what it returned
    registrations   \* history: the (source type, class) pairs registered, in order

regvars == <<collectors, instances, resolved, registrations>>

VARIABLES
    left_over  \* history: the events that were queued when a stop() gave up waiting

(***************************************************************************)
(* DigestScheduler (infrastructure/scheduler/apscheduler.py) over the      *)
(* schedules of the APScheduler data store.                                *)
(***************************************************************************)
MaxSchedules == 2

ScheduleIds == 1..MaxSchedules
\* Schedule.cron_expression, as the fields str.split() finds in it.
Crons == {<<"0", "8", "*", "*", "*">>, <<"0", "8">>}
Schedules == [id : ScheduleIds, is_active : BOOLEAN, cron_expression : Crons]

VARIABLES
    scheduler,   \* self._scheduler: "None" or the AsyncScheduler
    job_func,    \* self._job_func: "None" or the job function
    stored,      \* the schedules of the data store: id and cron expression of the trigger
    sched        \* the add_schedule / remove_schedule / sync_schedules coroutine

schedvars == <<scheduler, job_func, stored, sched>>

unitvars == <<itemvars, hashvars, regvars, left_over, schedvars>>

vars == <<dbvars, busvars, alertvars, unitvars>>

IdlePub == [pc |-> "idle", op |-> "", event |-> NULL, ret |-> TRUE]
IdleStop == [pc |-> "idle", task |-> NULL, seen |-> 0]

\* lines 22-32: __init__
BusInit ==
    /\ handlers = [t \in EventTypes |-> <<>>]
    /\ queue = <<>>
    /\ unfinished = 0
    /\ running = FALSE
    /\ worker_task = NULL
    /\ tasks = <<>>
    /\ pub = [p \in Publishers |-> IdlePub]
    /\ stopper = IdleStop
    /\ published = 0
    /\ accepted = <<>>
    /\ taken = <<>>

IdleBatch == [pc |-> "idle", pending |-> <<>>, done |-> <<>>, ids |-> <<>>]

\* An empty items table.
ItemInit ==
    /\ item_rows = {}
    /\ upserts = 0
    /\ returned = NULL
    /\ batch = IdleBatch

\* No item created yet.
HashInit ==
    /\ hash_content = <<>>
    /\ content_hash = <<>>

\* line 218: _collectors = {}
RegistryInit ==
    /\ collectors = <<>>
    /\ instances = {}
    /\ resolved = [op |-> "none"]
    /\ registrations = <<>>

\* before and ready are history: the schedules and the readiness of the
\* scheduler that a call of add_schedule found.
IdleSched == [pc |-> "idle", op |-> "", arg |-> <<>>, todo |-> <<>>, exc |-> "",
              before |-> {}, ready |-> FALSE]

\* lines 27-38: __init__, over a data store with no schedule
SchedulerInit ==
    /\ scheduler = "None"
    /\ job_func = "None"
    /\ stored = {}
    /\ sched = IdleSched

UnitInit == ItemInit /\ HashInit /\ RegistryInit /\ left_over = {} /\ SchedulerInit

IdleAlert == [pc |-> "idle", source_id |-> NULL, name |-> <<>>]

\* lines 32-46: __init__
AlertInit ==
    /\ last_alerts = [s \in AlertSources |-> NULL]
    /\ now_utc = 1
    /\ alert = [a \in AlertSlots |-> IdleAlert]
    /\ alert_log = <<>>

Gens == {1, 2}

(***************************************************************************)
(* Domain events (domain/events.py), as the pipeline constructs them.      *)
(***************************************************************************)
Ev(t, s, d, n1, n2, txt) ==
    [type |-> t, source_id |-> s, digest_id |-> d, n1 |-> n1, n2 |-> n2, text |-> txt]
CollectionStarted(s, d) == Ev("CollectionStarted", s, d, 0, 0, "")
CollectionCompleted(s, d, items_count, new_items_count) ==
    Ev("CollectionCompleted", s, d, items_count, new_items_count, "")
CollectorFailed(s, error_type) == Ev("CollectorFailed", s, 0, 0, 0, error_type)
DigestReady(d, item_count) == Ev("DigestReady", 0, d, item_count, 0, "")
DigestFailed(d, error_message) == Ev("DigestFailed", 0, d, 0, 0, error_message)
DigestSent(d, telegram_message_id) == Ev("DigestSent", 0, d, telegram_message_id, 0, "")

(***************************************************************************)
(* DigestRepositoryImpl                                                    *)
(***************************************************************************)
create(ds) ==
    Append(ds, [status |-> "pending", sent_at |-> NULL, telegram_message_id |-> NULL,
                content |-> "", item_count |-> 0, error_message |-> ""])

\* A variant that writes the status only.
update_status_keeps_message(ds, digest_id, status, error_message) ==
    IF digest_id \in DOMAIN ds
    THEN [ds EXCEPT ![digest_id].status = status]
    ELSE ds

\* UPDATE digests SET status, error_message WHERE id = digest_id
update_status(ds, digest_id, status, error_message) ==
    IF digest_id \in DOMAIN ds
    THEN [ds EXCEPT ![digest_id].status = status, ![digest_id].error_message = error_message]
    ELSE ds

\* A variant that does not store item_count.
mark_sent_without_count(ds, digest_id, now, telegram_message_id, content, item_count) ==
    IF digest_id \in DOMAIN ds
    THEN [ds EXCEPT ![digest_id].status = "sent",
                    ![digest_id].sent_at = now,
                    ![digest_id].telegram_message_id = telegram_message_id,
                    ![digest_id].content = content]
    ELSE ds

\* UPDATE digests SET status = 'sent', sent_at = now, ... WHERE id = digest_id
mark_sent(ds, digest_id, now, telegram_message_id, content, item_count) ==
    IF digest_id \in DOMAIN ds
    THEN [ds EXCEPT ![digest_id].status = "sent",
                    ![digest_id].sent_at = now,
                    ![digest_id].telegram_message_id = telegram_message_id,
                    ![digest_id].content = content,
                    ![digest_id].item_count = item_count]
    ELSE ds

\* A variant that adds a row for one of the pairs only.
add_items_first_only(led, digest_id, pairs) ==
    led \cup {[digest_id |-> digest_id, item_id |-> p[1], content_hash_at_send |-> p[2]]
              : p \in {q \in pairs : \A x \in pairs : q[1] <= x[1]}}

\* one DigestItemModel row per (item_id, content_hash) pair
add_items(led, digest_id, pairs) ==
    led \cup {[digest_id |-> digest_id, item_id |-> p[1], content_hash_at_send |-> p[2]]
              : p \in pairs}

(***************************************************************************)
(* ItemRepositoryImpl                                                      *)
(***************************************************************************)
\* INSERT ... ON CONFLICT (source_id, external_id) DO UPDATE SET content_hash ...
upsert(its, i, h) == [its EXCEPT ![i] = h]

\* A variant of the subquery without the status filter.
SentRowsOfAnyStatus(ds, led) == {r \in led : r.digest_id \in DOMAIN ds}

\* The subquery: digest_items JOIN digests WHERE digests.status = 'sent'.
SentRows(ds, led) == {r \in led : r.digest_id \in DOMAIN ds /\ ds[r.digest_id].status = "sent"}

\* A variant that orders by sent_at ascending.
SentAtAsc(ds, r1, r2) ==
    LET a == ds[r1.digest_id].sent_at
        b == ds[r2.digest_id].sent_at
    IN  IF b = NULL THEN TRUE ELSE (a # NULL /\ a <= b)

\* ORDER BY sent_at DESC: PostgreSQL sorts NULL first in a descending order.
SentAtDesc(ds, r1, r2) ==
    LET a == ds[r1.digest_id].sent_at
        b == ds[r2.digest_id].sent_at
    IN  IF a = NULL THEN TRUE ELSE (b # NULL /\ a >= b)

\* DISTINCT ON (item_id) ... ORDER BY item_id, sent_at DESC: per item the first row.
LatestSentRow(ds, led, i) ==
    LET rows == {r \in SentRows(ds, led) : r.item_id = i}
    IN  IF rows = {} THEN NULL
        ELSE (CHOOSE r \in rows : \A q \in rows : SentAtDesc(ds, r, q)).content_hash_at_send

\* SELECT items LEFT OUTER JOIN subquery WHERE source_id = :source_id
\*   AND (content_hash_at_send IS NULL OR content_hash != content_hash_at_send)
get_changed_since_last_digest(its, ds, led, source_id) ==
    {<<i, its[i]>> : i \in {j \in Items : /\ its[j] # NULL
                                          /\ ItemSource(j) = source_id
                                          /\ \/ LatestSentRow(ds, led, j) = NULL
                                             \/ its[j] # LatestSentRow(ds, led, j)}}

(***************************************************************************)
(* SourceRepositoryImpl, CollectorRegistry, CollectorErrorRepositoryImpl   *)
(***************************************************************************)
\* The query of get_active has no ORDER BY: the rows come in the order the
\* table returns them, by id unless said otherwise.
ById == <<1, 2, 3, 4>>
TableOrders == {ById, <<3, 1, 2, 4>>}

\* SELECT sources WHERE is_active, over the rows in table order
get_active_of(rows) == SelectSeq(rows, SourceIsActive)
get_active == get_active_of(ById)

\* project_ids is a list of project ids (here the set of its members) or
\* None, which is written as a set that holds no project.
NoFilter == {"None"}

\* `if project_ids:` is false for None and for the empty list.
Truthy(project_ids) == project_ids # NoFilter /\ project_ids # {}

\* A variant of the filter that keeps the sources of every project.
InAnyProject(project_ids, s) == TRUE

\* DigestService._get_sources_for_digest: a None or empty filter keeps all
InFilter(project_ids, s) == SourceProject(s) \in project_ids
sources_for_digest(rows, project_ids) ==
    IF Truthy(project_ids)
    THEN SelectSeq(get_active_of(rows), LAMBDA s : InFilter(project_ids, s))
    ELSE get_active_of(rows)
get_sources_for_digest(project_ids) == sources_for_digest(ById, project_ids)

\* A variant that finds a collector for every type.
create_for_any_type(source_type) == TRUE

\* CollectorRegistry.create: a collector instance, or None for an unknown type
CollectorRegistry_create(source_type) == source_type \in Registered

errors_create(errs, source_id, error_type) ==
    Append(errs, [source_id |-> source_id, error_type |-> error_type, resolved |-> FALSE])

mark_all_resolved(errs, source_id) ==
    [k \in DOMAIN errs |->
        IF errs[k].source_id = source_id /\ ~errs[k].resolved
        THEN [errs[k] EXCEPT !.resolved = TRUE] ELSE errs[k]]

(***************************************************************************)
(* DigestService.generate_digest: one coroutine per slot of gen.           *)
(***************************************************************************)
CollectorErrorTypes == {"auth"}

IdleGen ==
    [pc |-> "idle", digest_id |-> 0, project_ids |-> {}, cands |-> <<>>, todo |-> <<>>,
     source |-> 0, collected |-> {}, pending |-> <<>>, result |-> {}, all_items |-> {},
     started |-> {}, raised_in |-> {}, src_exc |-> "", exc |-> "", log |-> <<>>, ret |-> 0,
     opened |-> <<>>, closed |-> <<>>]

IdleMark ==
    [pc |-> "idle", digest_id |-> 0, telegram_message_id |-> 0, item_count |-> 0,
     log |-> <<>>]

DigestInit ==
    /\ items = [i \in Items |-> NULL]
    /\ digests = <<>>
    /\ digest_items = {}
    /\ last_synced_at = [s \in Sources |-> NULL]
    /\ collector_errors = <<>>
    /\ clock = 0
    /\ status_log = <<>>
    /\ ready = {}
    /\ confirmed = {}
    /\ fresh = [i \in Items |-> {}]
    /\ gen = [g \in Gens |-> IdleGen]
    /\ mk = IdleMark
    /\ BusInit
    /\ AlertInit
    /\ UnitInit

\* The exception e reaches the handler of generate_digest (line 149).
ToHandler(r, e) == [r EXCEPT !.pc = "handler", !.exc = e]

\* History: the status the UPDATE left in row digest_id of ds.
Persist(log, ds, digest_id) ==
    IF digest_id \in DOMAIN log
    THEN [log EXCEPT ![digest_id] = Append(@, ds[digest_id].status)] ELSE log

SetToSeq(S) ==
    LET RECURSIVE F(_)
        F(T) == IF T = {} THEN <<>>
                ELSE LET x == CHOOSE y \in T : \A z \in T : y[1] <= z[1]
                     IN  <<x>> \o F(T \ {x})
    IN  F(S)

\* A variant without the empty-digest branch.
AfterLoopAlwaysFormats(all_items) == "update_formatting"

\* lines 109-115: if not all_items: ... SENT, return; else ... FORMATTING
AfterLoop(all_items) ==
    IF all_items = {} THEN "update_sent" ELSE "update_formatting"

\* A variant of the loop that announces every remaining source at once.
StartNextFanOut(r) ==
    IF r.todo = <<>>
    THEN [r EXCEPT !.source = 0, !.pc = AfterLoop(r.all_items)]
    ELSE [r EXCEPT !.todo = Tail(r.todo), !.source = Head(r.todo),
                   !.collected = {}, !.pending = <<>>, !.result = {}, !.src_exc = "",
                   !.started = @ \cup {r.todo[k] : k \in DOMAIN r.todo},
                   !.log = @ \o [k \in DOMAIN r.todo |->
                                    CollectionStarted(r.todo[k], r.digest_id)],
                   !.opened = IF CollectorRegistry_create(SourceType(Head(r.todo)))
                              THEN Append(@, Head(r.todo)) ELSE @,
                   !.pc = IF CollectorRegistry_create(SourceType(Head(r.todo)))
                          THEN "collect" ELSE "close"]

\* The head of the for loop (lines 105-107 and 202-213): everything up to the
\* first await that suspends.  CollectionStarted is published, the collector is
\* resolved; a source without a collector returns [] at once and the loop goes on.
RECURSIVE StartNext(_)
StartNext(r) ==
    IF r.todo = <<>>
    THEN [r EXCEPT !.source = 0, !.pc = AfterLoop(r.all_items)]
    ELSE LET s == Head(r.todo)
             r1 == [r EXCEPT !.todo = Tail(r.todo), !.source = s,
                             !.collected = {}, !.pending = <<>>, !.result = {},
                             !.src_exc = "",
                             !.started = @ \cup {s},
                             !.log = Append(@, CollectionStarted(s, r.digest_id))]
         IN  IF CollectorRegistry_create(SourceType(s))
             THEN [r1 EXCEPT !.pc = "collect", !.opened = Append(@, s)]
             ELSE StartNext(r1)

\* The outcomes of an awaited call of a collaborator: it returns or it raises.
Outcomes == {"ok", "raise"}
CollectOutcomes == {"ok", "CollectorError", "Exception"}

\* A coroutine that returned or raised is over; its slot is free for a new call.
Over == {"idle", "returned", "raised"}

\* lines 88-93: await self._digests.create(...); limit bounds the rows created
GenerateDigest(g, project_ids, o, limit) ==
    /\ gen[g].pc \in Over
    /\ Len(digests) < limit
    /\ \/ /\ o = "ok"
          /\ digests' = create(digests)
          /\ status_log' = Append(status_log, <<digests'[Len(digests')].status>>)
          /\ gen' = [gen EXCEPT ![g] = [IdleGen EXCEPT !.pc = "update_collecting",
                                                       !.digest_id = Len(digests) + 1,
                                                       !.project_ids = project_ids]]
       \/ /\ o = "raise"
          /\ gen' = [gen EXCEPT ![g] = [IdleGen EXCEPT !.pc = "raised",
                                                       !.exc = "create failed"]]
          /\ UNCHANGED <<digests, status_log>>
    /\ UNCHANGED <<busvars, alertvars, unitvars>>
    /\ UNCHANGED <<items, digest_items, last_synced_at, collector_errors, clock, ready,
                   confirmed, fresh, mk>>

\* A variant of the step that does not write the status.
UpdateCollectingForgotten(g, o) ==
    /\ gen[g].pc = "update_collecting"
    /\ gen' = [gen EXCEPT ![g] = IF o = "ok" THEN [@ EXCEPT !.pc = "get_sources"]
                                 ELSE ToHandler(@, "update_status failed")]
    /\ UNCHANGED <<busvars, alertvars, unitvars>>
    /\ UNCHANGED <<items, digests, digest_items, last_synced_at, collector_errors, clock,
                   status_log, ready, confirmed, fresh, mk>>

\* line 97: await self._digests.update_status(digest_id, COLLECTING)
UpdateCollecting(g, o) ==
    /\ gen[g].pc = "update_collecting"
    /\ \/ /\ o = "ok"
          /\ digests' = update_status(digests, gen[g].digest_id, "collecting", "")
          /\ status_log' = Persist(status_log, digests', gen[g].digest_id)
          /\ gen' = [gen EXCEPT ![g].pc = "get_sources"]
       \/ /\ o = "raise"
          /\ gen' = [gen EXCEPT ![g] = ToHandler(@, "update_status failed")]
          /\ UNCHANGED <<digests, status_log>>
    /\ UNCHANGED <<busvars, alertvars, unitvars>>
    /\ UNCHANGED <<items, digest_items, last_synced_at, collector_errors, clock, ready,
                   confirmed, fresh, mk>>

\* line 100: sources = await self._get_sources_for_digest(project_ids)
GetSourcesIn(g, o, rows) ==
    /\ gen[g].pc = "get_sources"
    /\ \/ /\ o = "ok"
          /\ LET cands == sources_for_digest(rows, gen[g].project_ids)
             IN  gen' = [gen EXCEPT ![g] =
                            StartNext([@ EXCEPT !.cands = cands, !.todo = cands])]
       \/ /\ o = "raise"
          /\ gen' = [gen EXCEPT ![g] = ToHandler(@, "get_active failed")]
    /\ UNCHANGED <<busvars, alertvars, unitvars>>
    /\ UNCHANGED <<items, digests, digest_items, last_synced_at, collector_errors, clock,
                   status_log, ready, confirmed, fresh, mk>>

GetSources(g, o) == GetSourcesIn(g, o, ById)

ItemsOf(s) == {i \in Items : ItemSource(i) = s}

\* The remote items that exist at first: one per source with a collector.
FirstItems == {1, 2}

\* What the collector of s can return when the remote items are those of pool.
Collections(s, pool) ==
    UNION {{{<<i, f[i]>> : i \in sub} : f \in [sub -> Hashes]} :
              sub \in SUBSET (ItemsOf(s) \cap pool)}

\* The except clause that takes an exception raised inside the try of
\* _collect_from_source: CollectorError keeps its error_type, anything else is
\* recorded as "unexpected" (lines 251-287).
Caught(r, error_type) ==
    [r EXCEPT !.pc = "record_error", !.src_exc = error_type,
              !.raised_in = @ \cup {r.source}]

\* lines 216-221: items = await collector.collect(...)
CollectFrom(g, o, pool) ==
    /\ gen[g].pc = "collect"
    /\ \/ /\ o = "ok"
          /\ \E c \in Collections(gen[g].source, pool) :
               gen' = [gen EXCEPT ![g].collected = c,
                                  ![g].pending = SetToSeq(c),
                                  ![g].pc = IF c = {} THEN "update_last_synced"
                                            ELSE "upsert"]
       \/ /\ o = "CollectorError"
          /\ \E t \in CollectorErrorTypes : gen' = [gen EXCEPT ![g] = Caught(@, t)]
       \/ /\ o = "Exception"
          /\ gen' = [gen EXCEPT ![g] = Caught(@, "unexpected")]
    /\ UNCHANGED <<busvars, alertvars, unitvars>>
    /\ UNCHANGED <<items, digests, digest_items, last_synced_at, collector_errors, clock,
                   status_log, ready, confirmed, fresh, mk>>

Collect(g, o) == CollectFrom(g, o, FirstItems)

\* line 224 and upsert_many (repository.py 246-252): one awaited upsert per item
UpsertMany(g, o) ==
    /\ gen[g].pc = "upsert"
    /\ LET p == Head(gen[g].pending)
           rest == Tail(gen[g].pending)
       IN  \/ /\ o = "ok"
              /\ items' = upsert(items, p[1], p[2])
              /\ fresh' = IF items[p[1]] # p[2] THEN [fresh EXCEPT ![p[1]] = {}] ELSE fresh
              /\ gen' = [gen EXCEPT ![g].pending = rest,
                                     ![g].pc = IF rest = <<>> THEN "update_last_synced"
                                               ELSE "upsert"]
           \/ /\ o = "raise"
              /\ gen' = [gen EXCEPT ![g] = Caught(@, "unexpected")]
              /\ UNCHANGED <<items, fresh>>
    /\ UNCHANGED <<busvars, alertvars, unitvars>>
    /\ UNCHANGED <<digests, digest_items, last_synced_at, collector_errors, clock,
                   status_log, ready, confirmed, mk>>

\* line 227: await self._sources.update_last_synced(source.id, now)
UpdateLastSynced(g, o) ==
    /\ gen[g].pc = "update_last_synced"
    /\ \/ /\ o = "ok"
          /\ last_synced_at' = [last_synced_at EXCEPT ![gen[g].source] = gen[g].digest_id]
          /\ gen' = [gen EXCEPT ![g].pc = "mark_all_resolved"]
       \/ /\ o = "raise"
          /\ gen' = [gen EXCEPT ![g] = Caught(@, "unexpected")]
          /\ UNCHANGED last_synced_at
    /\ UNCHANGED <<busvars, alertvars, unitvars>>
    /\ UNCHANGED <<items, digests, digest_items, collector_errors, clock, status_log,
                   ready, confirmed, fresh, mk>>

\* line 230: await self._errors.mark_all_resolved(source.id)
MarkAllResolved(g, o) ==
    /\ gen[g].pc = "mark_all_resolved"
    /\ \/ /\ o = "ok"
          /\ collector_errors' = mark_all_resolved(collector_errors, gen[g].source)
          /\ gen' = [gen EXCEPT ![g].pc = "get_changed"]
       \/ /\ o = "raise"
          /\ gen' = [gen EXCEPT ![g] = Caught(@, "unexpected")]
          /\ UNCHANGED collector_errors
    /\ UNCHANGED <<busvars, alertvars, unitvars>>
    /\ UNCHANGED <<items, digests, digest_items, last_synced_at, clock, status_log,
                   ready, confirmed, fresh, mk>>

\* lines 233-243: the changed-set query, then CollectionCompleted
GetChanged(g, o) ==
    /\ gen[g].pc = "get_changed"
    /\ \/ /\ o = "ok"
          /\ LET res == get_changed_since_last_digest(items, digests, digest_items,
                                                      gen[g].source)
             IN  /\ gen' = [gen EXCEPT ![g].result = res,
                                        ![g].pc = "close",
                                        ![g].log = Append(@, CollectionCompleted(
                                            gen[g].source, gen[g].digest_id,
                                            Cardinality(gen[g].collected), Cardinality(res)))]
                 /\ fresh' = [i \in Items |->
                                IF \E p \in res : p[1] = i
                                THEN fresh[i] \cup {gen[g].digest_id}
                                ELSE fresh[i]]
       \/ /\ o = "raise"
          /\ gen' = [gen EXCEPT ![g] = Caught(@, "unexpected")]
          /\ UNCHANGED fresh
    /\ UNCHANGED <<busvars, alertvars, unitvars>>
    /\ UNCHANGED <<items, digests, digest_items, last_synced_at, collector_errors, clock,
                   status_log, ready, confirmed, mk>>

\* lines 251-287: the except blocks: record the error, publish CollectorFailed
RecordError(g, o) ==
    /\ gen[g].pc = "record_error"
    /\ \/ /\ o = "ok"
          /\ collector_errors' =
                 errors_create(collector_errors, gen[g].source, gen[g].src_exc)
          /\ gen' = [gen EXCEPT ![g].pc = "close",
                                 ![g].log = Append(@, CollectorFailed(gen[g].source,
                                                                      gen[g].src_exc))]
       \/ /\ o = "raise"
          /\ gen' = [gen EXCEPT ![g].pc = "close", ![g].exc = "errors.create failed"]
          /\ UNCHANGED collector_errors
    /\ UNCHANGED <<busvars, alertvars, unitvars>>
    /\ UNCHANGED <<items, digests, digest_items, last_synced_at, clock, status_log,
                   ready, confirmed, fresh, mk>>

\* A variant of the function whose close() is the last statement of the try
\* block, not a finally block: a source that failed is left without it.
CloseCollectorOnSuccess(g, o) ==
    /\ gen[g].pc = "close"
    /\ o = "ok"
    /\ gen' = [gen EXCEPT ![g] =
                 IF gen[g].exc # ""
                 THEN ToHandler(@, gen[g].exc)
                 ELSE StartNext([@ EXCEPT !.closed = IF gen[g].src_exc = ""
                                                     THEN Append(@, gen[g].source) ELSE @,
                                          !.all_items =
                          @ \cup {<<p[1], p[2], gen[g].source>> : p \in gen[g].result}])]
    /\ UNCHANGED <<busvars, alertvars, unitvars>>
    /\ UNCHANGED <<items, digests, digest_items, last_synced_at, collector_errors, clock,
                   status_log, ready, confirmed, fresh, mk>>

\* lines 289-294 and 107: finally: await collector.close(); return result; extend.
\* closed is history: the sources on whose collector close() was called.
CloseCollector(g, o) ==
    /\ gen[g].pc = "close"
    /\ \/ /\ o = "ok"
          /\ gen' = [gen EXCEPT ![g] =
                       IF gen[g].exc # ""
                       THEN ToHandler([@ EXCEPT !.closed = Append(@, gen[g].source)],
                                      gen[g].exc)
                       ELSE StartNext([@ EXCEPT !.closed = Append(@, gen[g].source),
                                                !.all_items =
                                @ \cup {<<p[1], p[2], gen[g].source>> : p \in gen[g].result}])]
       \/ /\ o = "raise"
          /\ gen' = [gen EXCEPT ![g] =
                       ToHandler([@ EXCEPT !.raised_in = @ \cup {gen[g].source},
                                           !.closed = Append(@, gen[g].source)],
                                 "close failed")]
    /\ UNCHANGED <<busvars, alertvars, unitvars>>
    /\ UNCHANGED <<items, digests, digest_items, last_synced_at, collector_errors, clock,
                   status_log, ready, confirmed, fresh, mk>>

\* lines 109-112: no items: update_status(SENT) and return the digest id
UpdateSentEmpty(g, o) ==
    /\ gen[g].pc = "update_sent"
    /\ \/ /\ o = "ok"
          /\ digests' = update_status(digests, gen[g].digest_id, "sent", "")
          /\ status_log' = Persist(status_log, digests', gen[g].digest_id)
          /\ gen' = [gen EXCEPT ![g].pc = "returned", ![g].ret = gen[g].digest_id]
       \/ /\ o = "raise"
          /\ gen' = [gen EXCEPT ![g] = ToHandler(@, "update_status failed")]
          /\ UNCHANGED <<digests, status_log>>
    /\ UNCHANGED <<busvars, alertvars, unitvars>>
    /\ UNCHANGED <<items, digest_items, last_synced_at, collector_errors, clock, ready,
                   confirmed, fresh, mk>>

\* line 115: await self._digests.update_status(digest_id, FORMATTING)
UpdateFormatting(g, o) ==
    /\ gen[g].pc = "update_formatting"
    /\ \/ /\ o = "ok"
          /\ digests' = update_status(digests, gen[g].digest_id, "formatting", "")
          /\ status_log' = Persist(status_log, digests', gen[g].digest_id)
          /\ gen' = [gen EXCEPT ![g].pc = "format"]
       \/ /\ o = "raise"
          /\ gen' = [gen EXCEPT ![g] = ToHandler(@, "update_status failed")]
          /\ UNCHANGED <<digests, status_log>>
    /\ UNCHANGED <<busvars, alertvars, unitvars>>
    /\ UNCHANGED <<items, digest_items, last_synced_at, collector_errors, clock, ready,
                   confirmed, fresh, mk>>

\* lines 118-135: read the projects and the language, format, publish DigestReady
FormatDigest(g, o) ==
    /\ gen[g].pc = "format"
    /\ \/ /\ o = "ok"
          /\ gen' = [gen EXCEPT ![g].pc = "add_items",
                                 ![g].log = Append(@, DigestReady(gen[g].digest_id,
                                                     Cardinality(gen[g].all_items)))]
          /\ ready' = ready \cup {gen[g].digest_id}
       \/ /\ o = "raise"
          /\ gen' = [gen EXCEPT ![g] = ToHandler(@, "format failed")]
          /\ UNCHANGED ready
    /\ UNCHANGED <<busvars, alertvars, unitvars>>
    /\ UNCHANGED <<items, digests, digest_items, last_synced_at, collector_errors, clock,
                   status_log, confirmed, fresh, mk>>

\* lines 138-141 and 159: await self._digests.add_items(...); return digest_id
AddItems(g, o) ==
    /\ gen[g].pc = "add_items"
    /\ \/ /\ o = "ok"
          /\ digest_items' = add_items(digest_items, gen[g].digest_id,
                                        {<<p[1], p[2]>> : p \in gen[g].all_items})
          /\ gen' = [gen EXCEPT ![g].pc = "returned", ![g].ret = gen[g].digest_id]
       \/ /\ o = "raise"
          /\ gen' = [gen EXCEPT ![g] = ToHandler(@, "add_items failed")]
          /\ UNCHANGED digest_items
    /\ UNCHANGED <<busvars, alertvars, unitvars>>
    /\ UNCHANGED <<items, digests, last_synced_at, collector_errors, clock, status_log,
                   ready, confirmed, fresh, mk>>

\* lines 149-157: except Exception: update_status(FAILED, str(e)); publish; raise
FailDigest(g, o) ==
    /\ gen[g].pc = "handler"
    /\ \/ /\ o = "ok"
          /\ digests' = update_status(digests, gen[g].digest_id, "failed", gen[g].exc)
          /\ status_log' = Persist(status_log, digests', gen[g].digest_id)
          /\ gen' = [gen EXCEPT ![g].pc = "raised",
                                 ![g].log = Append(@, DigestFailed(gen[g].digest_id,
                                                                   gen[g].exc))]
       \/ /\ o = "raise"
          /\ gen' = [gen EXCEPT ![g].pc = "raised", ![g].exc = "handler failed"]
          /\ UNCHANGED <<digests, status_log>>
    /\ UNCHANGED <<busvars, alertvars, unitvars>>
    /\ UNCHANGED <<items, digest_items, last_synced_at, collector_errors, clock, ready,
                   confirmed, fresh, mk>>

(***************************************************************************)
(* DigestService.mark_digest_sent, called by the delivery side once for a  *)
(* digest it was handed by DigestReady.                                    *)
(***************************************************************************)
\* lines 344-349: await self._digests.mark_sent(...), sent_at = datetime.now(UTC)
MarkDigestSent(d, m, c, o) ==
    /\ mk.pc \in Over
    /\ d \in ready \ confirmed
    /\ confirmed' = confirmed \cup {d}
    /\ \/ /\ o = "ok"
          /\ clock' = clock + 1
          /\ digests' = mark_sent(digests, d, clock + 1, m, "content", c)
          /\ status_log' = Persist(status_log, digests', d)
          /\ mk' = [IdleMark EXCEPT !.pc = "publish", !.digest_id = d,
                                     !.telegram_message_id = m, !.item_count = c]
       \/ /\ o = "raise"
          /\ mk' = [IdleMark EXCEPT !.pc = "raised", !.digest_id = d,
                                     !.telegram_message_id = m, !.item_count = c]
          /\ UNCHANGED <<clock, digests, status_log>>
    /\ UNCHANGED <<busvars, alertvars, unitvars>>
    /\ UNCHANGED <<items, digest_items, last_synced_at, collector_errors, ready, fresh, gen>>

\* lines 351-356: await self._bus.publish(DigestSent(...))
PublishDigestSent ==
    /\ mk.pc = "publish"
    /\ mk' = [mk EXCEPT !.pc = "returned",
                         !.log = Append(@, DigestSent(mk.digest_id, mk.telegram_message_id))]
    /\ UNCHANGED <<busvars, alertvars, unitvars>>
    /\ UNCHANGED <<items, digests, digest_items, last_synced_at, collector_errors, clock,
                   status_log, ready, confirmed, fresh, gen>>

(***************************************************************************)
(* Spec: the deduplication scenario.  Up to MaxDigests generations, one    *)
(* after the other, each for project p1 or for project p2, and their       *)
(* confirmations, which may come at any time after DigestReady and in any  *)
(* order; every awaited call returns.                                      *)
(***************************************************************************)
Next ==
    \/ \E f \in {{"p1"}, {"p2"}} : GenerateDigest(1, f, "ok", MaxDigests)
    \/ UpdateCollecting(1, "ok")
    \/ GetSources(1, "ok")
    \/ Collect(1, "ok")
    \/ UpsertMany(1, "ok")
    \/ UpdateLastSynced(1, "ok")
    \/ MarkAllResolved(1, "ok")
    \/ GetChanged(1, "ok")
    \/ CloseCollector(1, "ok")
    \/ UpdateSentEmpty(1, "ok")
    \/ UpdateFormatting(1, "ok")
    \/ FormatDigest(1, "ok")
    \/ AddItems(1, "ok")
    \/ \E d \in 1..MaxDigests : MarkDigestSent(d, 7, 2, "ok")
    \/ PublishDigestSent

Spec == DigestInit /\ [][Next]_vars

(***************************************************************************)
(* SpecLatest: the same generations and confirmations for project p1       *)
(* alone, whose items change between the runs.                             *)
(***************************************************************************)
NextLatest ==
    \/ GenerateDigest(1, {"p1"}, "ok", MaxDigests)
    \/ UpdateCollecting(1, "ok")
    \/ GetSources(1, "ok")
    \/ Collect(1, "ok")
    \/ UpsertMany(1, "ok")
    \/ UpdateLastSynced(1, "ok")
    \/ MarkAllResolved(1, "ok")
    \/ GetChanged(1, "ok")
    \/ CloseCollector(1, "ok")
    \/ UpdateSentEmpty(1, "ok")
    \/ UpdateFormatting(1, "ok")
    \/ FormatDigest(1, "ok")
    \/ AddItems(1, "ok")
    \/ \E d \in 1..MaxDigests : MarkDigestSent(d, 7, 2, "ok")
    \/ PublishDigestSent

SpecLatest == DigestInit /\ [][NextLatest]_vars

(***************************************************************************)
(* SpecOverlap: two generate_digest coroutines that overlap, with up to    *)
(* MaxOverlapDigests digests; every awaited call returns.                  *)
(***************************************************************************)
MaxOverlapDigests == 2

NextOverlap ==
    \/ \E g \in Gens : GenerateDigest(g, {}, "ok", MaxOverlapDigests)
    \/ \E g \in Gens : UpdateCollecting(g, "ok")
    \/ \E g \in Gens : GetSources(g, "ok")
    \/ \E g \in Gens : Collect(g, "ok")
    \/ \E g \in Gens : UpsertMany(g, "ok")
    \/ \E g \in Gens : UpdateLastSynced(g, "ok")
    \/ \E g \in Gens : MarkAllResolved(g, "ok")
    \/ \E g \in Gens : GetChanged(g, "ok")
    \/ \E g \in Gens : CloseCollector(g, "ok")
    \/ \E g \in Gens : UpdateSentEmpty(g, "ok")
    \/ \E g \in Gens : UpdateFormatting(g, "ok")
    \/ \E g \in Gens : FormatDigest(g, "ok")
    \/ \E g \in Gens : AddItems(g, "ok")
    \/ \E d \in 1..MaxOverlapDigests : MarkDigestSent(d, 7, 2, "ok")
    \/ PublishDigestSent

SpecOverlap == DigestInit /\ [][NextOverlap]_vars

(***************************************************************************)
(* SpecFaults: the failure scenario.  The database holds one digest that   *)
(* was sent with item 1 while the collector of source 2 failed (SpecSeed   *)
(* reaches it: one generation without a project filter, confirmed), and    *)
(* an item of source 3 that was stored while a collector for its type was  *)
(* registered; then up to MaxFaultDigests generations run one at a time,   *)
(* and the awaited calls may raise (those between the upserts and          *)
(* CollectionCompleted raise in SpecSources).                              *)
(***************************************************************************)
MaxFaultDigests == 1

SeedDigests ==
    <<[status |-> "sent", sent_at |-> 1, telegram_message_id |-> 7,
       content |-> "content", item_count |-> 2, error_message |-> ""]>>

SeedSynced == [s \in Sources |-> IF s = 1 THEN 1 ELSE NULL]
SeedErrors == <<[source_id |-> 2, error_type |-> "auth", resolved |-> FALSE]>>

\* What one generation leaves: source 1 collected, source 2 failed.
SeedRows ==
    /\ digests = SeedDigests
    /\ digest_items = {[digest_id |-> 1, item_id |-> 1, content_hash_at_send |-> 1]}
    /\ last_synced_at = SeedSynced
    /\ collector_errors = SeedErrors
    /\ clock = 1
    /\ status_log = <<<<"pending", "collecting", "formatting", "sent">>>>
    /\ ready = {1}
    /\ confirmed = {1}
    /\ fresh = [i \in Items |-> IF i = 1 THEN {1} ELSE {}]

\* The stored items of the seeded database: item 1 and item 4, with hash 1.
SeedItems == [i \in Items |-> IF i \in {1, 4} THEN 1 ELSE NULL]

SeedDatabase ==
    /\ items = SeedItems
    /\ SeedRows

FaultInit ==
    /\ SeedDatabase
    /\ gen = [g \in Gens |-> IdleGen]
    /\ mk = IdleMark
    /\ BusInit
    /\ AlertInit
    /\ UnitInit

FaultRows == Len(SeedDigests) + MaxFaultDigests

NextFaults ==
    \/ \E f \in ProjectFilters, o \in Outcomes : GenerateDigest(1, f, o, FaultRows)
    \/ \E o \in Outcomes : UpdateCollecting(1, o)
    \/ \E o \in Outcomes : GetSources(1, o)
    \/ \E o \in CollectOutcomes : Collect(1, o)
    \/ \E o \in Outcomes : UpsertMany(1, o)
    \/ UpdateLastSynced(1, "ok")
    \/ MarkAllResolved(1, "ok")
    \/ GetChanged(1, "ok")
    \/ \E o \in Outcomes : RecordError(1, o)
    \/ \E o \in Outcomes : CloseCollector(1, o)
    \/ \E o \in Outcomes : UpdateSentEmpty(1, o)
    \/ \E o \in Outcomes : UpdateFormatting(1, o)
    \/ \E o \in Outcomes : FormatDigest(1, o)
    \/ \E o \in Outcomes : AddItems(1, o)
    \/ \E o \in Outcomes : FailDigest(1, o)
    \/ \E d \in 1..FaultRows, m \in MsgIds, c \in ItemCounts, o \in Outcomes :
          MarkDigestSent(d, m, c, o)
    \/ PublishDigestSent

SpecFaults == FaultInit /\ [][NextFaults]_vars

(***************************************************************************)
(* SpecSources: one generation over the seeded database, source by source. *)
(* The table returns the sources in either order of TableOrders, the       *)
(* collector of a source may return any of the items of that source, and   *)
(* every awaited call of _collect_from_source may raise.                   *)
(***************************************************************************)
SourceFilters == {NoFilter, {}, {"p1"}, {"p3"}}
SourceRows == Len(SeedDigests) + 1

NextSources ==
    \/ \E f \in SourceFilters : GenerateDigest(1, f, "ok", SourceRows)
    \/ UpdateCollecting(1, "ok")
    \/ \E rows \in TableOrders : GetSourcesIn(1, "ok", rows)
    \/ \E o \in CollectOutcomes : CollectFrom(1, o, Items)
    \/ \E o \in Outcomes : UpsertMany(1, o)
    \/ \E o \in Outcomes : UpdateLastSynced(1, o)
    \/ \E o \in Outcomes : MarkAllResolved(1, o)
    \/ \E o \in Outcomes : GetChanged(1, o)
    \/ \E o \in Outcomes : RecordError(1, o)
    \/ \E o \in Outcomes : CloseCollector(1, o)
    \/ UpdateSentEmpty(1, "ok")
    \/ UpdateFormatting(1, "ok")
    \/ FormatDigest(1, "ok")
    \/ AddItems(1, "ok")
    \/ FailDigest(1, "ok")

SpecSources == FaultInit /\ [][NextSources]_vars

(***************************************************************************)
(* The message bus: its operations, the _worker task and the handlers.     *)
(* A step is the stretch of a coroutine up to its next await that          *)
(* suspends.                                                               *)
(***************************************************************************)
\* A variant for an unbounded queue.
never_full(q) == FALSE

\* asyncio.Queue(maxsize=max_queue_size).full(), line 30
full(q) == Len(q) >= max_queue_size

Event(id, type) == [id |-> id, type |-> type]

RemoveAt(s, k) == SubSeq(s, 1, k - 1) \o SubSeq(s, k + 1, Len(s))
Registrations == Len(handlers["CollectorFailed"]) + Len(handlers["DigestReady"])

\* lines 34-51
Subscribe(event_type, handler) ==
    /\ Registrations < MaxRegs
    /\ handlers' = [handlers EXCEPT ![event_type] = Append(@, handler)]
    /\ UNCHANGED <<queue, unfinished, running, worker_task, tasks, pub, stopper,
                   published, accepted, taken>>
    /\ UNCHANGED <<dbvars, alertvars, unitvars>>

\* A variant that removes every registration of the handler for the type.
UnsubscribeEvery(event_type, handler) ==
    /\ handlers' = [handlers EXCEPT ![event_type] = SelectSeq(@, LAMBDA x : x # handler)]
    /\ UNCHANGED <<queue, unfinished, running, worker_task, tasks, pub, stopper,
                   published, accepted, taken>>
    /\ UNCHANGED <<dbvars, alertvars, unitvars>>

\* lines 53-71: list.remove takes out the first occurrence
Unsubscribe(event_type, handler) ==
    /\ LET l == handlers[event_type]
           at == {k \in DOMAIN l : l[k] = handler}
       IN  IF at # {}
           THEN handlers' = [handlers EXCEPT ![event_type] =
                                RemoveAt(l, CHOOSE k \in at : \A j \in at : k <= j)]
           ELSE UNCHANGED handlers
    /\ UNCHANGED <<queue, unfinished, running, worker_task, tasks, pub, stopper,
                   published, accepted, taken>>
    /\ UNCHANGED <<dbvars, alertvars, unitvars>>

\* A variant that puts the event at the front of the queue.
EnqueueAtFront(event) ==
    /\ queue' = <<event>> \o queue
    /\ unfinished' = unfinished + 1
    /\ accepted' = Append(accepted, event.id)

\* Queue.put_nowait on a queue that is not full: the item is appended and
\* _unfinished_tasks grows by one.
Enqueue(event) ==
    /\ queue' = Append(queue, event)
    /\ unfinished' = unfinished + 1
    /\ accepted' = Append(accepted, event.id)

\* lines 73-85: await self._queue.put(event) waits while the queue is full
Publish(p, event_type, limit) ==
    /\ pub[p].pc = "idle"
    /\ published < limit
    /\ published' = published + 1
    /\ LET event == Event(published + 1, event_type)
       IN  IF full(queue)
           THEN /\ pub' = [pub EXCEPT ![p] = [pc |-> "suspended", op |-> "publish",
                                              event |-> event, ret |-> TRUE]]
                /\ UNCHANGED <<queue, unfinished, accepted>>
           ELSE /\ Enqueue(event)
                /\ pub' = [pub EXCEPT ![p] = [pc |-> "idle", op |-> "publish",
                                              event |-> event, ret |-> TRUE]]
    /\ UNCHANGED <<handlers, running, worker_task, tasks, stopper, taken>>
    /\ UNCHANGED <<dbvars, alertvars, unitvars>>

\* line 80, resumed: a slot is free, the waiting put() goes through
PublishResume(p) ==
    /\ pub[p].pc = "suspended"
    /\ ~full(queue)
    /\ Enqueue(pub[p].event)
    /\ pub' = [pub EXCEPT ![p].pc = "idle"]
    /\ UNCHANGED <<handlers, running, worker_task, tasks, stopper, published, taken>>
    /\ UNCHANGED <<dbvars, alertvars, unitvars>>

\* lines 87-111: put_nowait raises QueueFull on a full queue
PublishNowait(p, event_type, limit) ==
    /\ pub[p].pc = "idle"
    /\ published < limit
    /\ published' = published + 1
    /\ LET event == Event(published + 1, event_type)
       IN  IF full(queue)
           THEN /\ pub' = [pub EXCEPT ![p] = [pc |-> "idle", op |-> "publish_nowait",
                                              event |-> event, ret |-> FALSE]]
                /\ UNCHANGED <<queue, unfinished, accepted>>
           ELSE /\ Enqueue(event)
                /\ pub' = [pub EXCEPT ![p] = [pc |-> "idle", op |-> "publish_nowait",
                                              event |-> event, ret |-> TRUE]]
    /\ UNCHANGED <<handlers, running, worker_task, tasks, stopper, taken>>
    /\ UNCHANGED <<dbvars, alertvars, unitvars>>

NewTask == [pc |-> "new", event |-> NULL, calls |-> <<>>]

\* lines 181-189
Start ==
    /\ IF running
       THEN UNCHANGED <<running, tasks, worker_task>>
       ELSE /\ Len(tasks) < MaxTasks
            /\ running' = TRUE
            /\ tasks' = Append(tasks, NewTask)
            /\ worker_task' = Len(tasks) + 1
    /\ UNCHANGED <<handlers, queue, unfinished, pub, stopper, published, accepted,
                   taken>>
    /\ UNCHANGED <<dbvars, alertvars, unitvars>>

\* Task.cancel(): CancelledError is thrown into the task at its await; the
\* handler coroutines a gather() of the task waits for are cancelled with it.
Cancelled(task) ==
    IF task.pc = "done"
    THEN task
    ELSE [task EXCEPT !.pc = "cancelling",
                      !.calls = [k \in DOMAIN @ |->
                                   IF @[k].state \in {"scheduled", "started"}
                                   THEN [@[k] EXCEPT !.state = "cancelled"]
                                   ELSE @[k]]]

\* lines 209-214: cancel the task self._worker_task names and await it
CancelWorker ==
    IF worker_task = NULL
    THEN /\ stopper' = IdleStop
         /\ UNCHANGED <<tasks, worker_task>>
    ELSE IF tasks[worker_task].pc = "done"
         THEN /\ stopper' = IdleStop
              /\ worker_task' = NULL
              /\ UNCHANGED tasks
         ELSE /\ tasks' = [tasks EXCEPT ![worker_task] = Cancelled(@)]
              /\ stopper' = [pc |-> "await_worker", task |-> worker_task, seen |-> 0]
              /\ UNCHANGED worker_task

\* lines 191-205: stop() up to its first suspension
Stop ==
    /\ stopper.pc = "idle"
    /\ IF ~running
       THEN UNCHANGED <<running, stopper, tasks, worker_task>>
       ELSE /\ running' = FALSE
            /\ IF queue # <<>>
               THEN /\ stopper' = [pc |-> "join", task |-> NULL, seen |-> Len(accepted)]
                    /\ UNCHANGED <<tasks, worker_task>>
               ELSE CancelWorker
    /\ UNCHANGED <<handlers, queue, unfinished, pub, published, accepted, taken>>
    /\ UNCHANGED <<dbvars, alertvars, unitvars>>

\* line 205: queue.join() returns once every put was matched by task_done()
StopJoinDone ==
    /\ stopper.pc = "join"
    /\ unfinished = 0
    /\ CancelWorker
    /\ UNCHANGED <<handlers, queue, unfinished, running, pub, published, accepted,
                   taken>>
    /\ UNCHANGED <<dbvars, alertvars, unitvars>>

\* lines 205-207: the 10 s of wait_for pass first
StopJoinTimeout ==
    /\ stopper.pc = "join"
    /\ unfinished # 0
    /\ CancelWorker
    /\ left_over' = left_over \cup {queue[k].id : k \in DOMAIN queue}
    /\ UNCHANGED <<handlers, queue, unfinished, running, pub, published, accepted,
                   taken>>
    /\ UNCHANGED <<dbvars, alertvars, itemvars, hashvars, regvars, schedvars>>

\* lines 213-214: the awaited task has ended; self._worker_task = None
StopWorkerAwaited ==
    /\ stopper.pc = "await_worker"
    /\ tasks[stopper.task].pc = "done"
    /\ worker_task' = NULL
    /\ stopper' = IdleStop
    /\ UNCHANGED <<handlers, queue, unfinished, running, tasks, pub, published, accepted, taken>>
    /\ UNCHANGED <<dbvars, alertvars, unitvars>>

\* A variant of the loop condition that ends the task after one event.
LoopHeadOnce == "done"

\* line 162: while self._running
LoopHead == IF running THEN "wait" ELSE "done"

\* lines 158-162: the task starts to run
WorkerBegin(t) ==
    /\ tasks[t].pc = "new"
    /\ tasks' = [tasks EXCEPT ![t].pc = LoopHead]
    /\ UNCHANGED <<handlers, queue, unfinished, running, worker_task, pub, stopper,
                   published, accepted, taken>>
    /\ UNCHANGED <<dbvars, alertvars, unitvars>>

\* A variant that calls the handlers of every type.
process_event_any_type(event) ==
    [k \in 1..Registrations |->
        [handler |-> (handlers["CollectorFailed"] \o handlers["DigestReady"])[k],
         state |-> "scheduled", count |-> 0]]

\* A variant that finds no handler for any type.
process_event_no_subscriber(event) == <<>>

\* lines 120-131: one _call_handler coroutine per registration of the exact type
process_event(event) ==
    [k \in DOMAIN handlers[event.type] |->
        [handler |-> handlers[event.type][k], state |-> "scheduled", count |-> 0]]

\* lines 166-171: get() returns the oldest event; with no handler registered
\* _process_event returns at once and task_done() follows
WorkerGet(t) ==
    /\ tasks[t].pc = "wait"
    /\ queue # <<>>
    /\ LET event == Head(queue)
           calls == process_event(event)
       IN  /\ queue' = Tail(queue)
           /\ taken' = Append(taken, event.id)
           /\ IF calls = <<>>
              THEN /\ unfinished' = unfinished - 1
                   /\ tasks' = [tasks EXCEPT ![t].pc = LoopHead]
              ELSE /\ tasks' = [tasks EXCEPT ![t] =
                                  [pc |-> "gather", event |-> event, calls |-> calls]]
                   /\ UNCHANGED unfinished
    /\ UNCHANGED <<handlers, running, worker_task, pub, stopper, published, accepted>>
    /\ UNCHANGED <<dbvars, alertvars, unitvars>>

\* lines 166-168, 162: the get() timed out on an empty queue and the loop
\* condition is read again
WorkerTimeout(t) ==
    /\ tasks[t].pc = "wait"
    /\ queue = <<>>
    /\ ~running
    /\ tasks' = [tasks EXCEPT ![t].pc = "done"]
    /\ UNCHANGED <<handlers, queue, unfinished, running, worker_task, pub, stopper,
                   published, accepted, taken>>
    /\ UNCHANGED <<dbvars, alertvars, unitvars>>

\* lines 144-156: a _call_handler coroutine starts and calls its handler
CallHandler(t, k) ==
    /\ tasks[t].pc = "gather"
    /\ k \in DOMAIN tasks[t].calls
    /\ tasks[t].calls[k].state = "scheduled"
    /\ tasks' = [tasks EXCEPT ![t].calls[k].state = "started",
                              ![t].calls[k].count = @ + 1]
    /\ UNCHANGED <<handlers, queue, unfinished, running, worker_task, pub, stopper,
                   published, accepted, taken>>
    /\ UNCHANGED <<dbvars, alertvars, unitvars>>

\* A variant in which the first exception ends the dispatch of the event.
gather_first_exception(calls, k, result) ==
    [j \in DOMAIN calls |->
        IF j = k THEN [calls[j] EXCEPT !.state = result]
        ELSE IF result = "raised" /\ calls[j].state = "scheduled"
             THEN [calls[j] EXCEPT !.state = "dropped"]
             ELSE calls[j]]

\* lines 128-131: gather(..., return_exceptions=True) keeps the result or the
\* exception of call k and goes on waiting for the other calls
gather(calls, k, result) == [calls EXCEPT ![k].state = result]

HandlerResults == {"returned", "raised"}

\* line 156: the handler returns or raises
HandlerDone(t, k, result) ==
    /\ tasks[t].pc = "gather"
    /\ k \in DOMAIN tasks[t].calls
    /\ tasks[t].calls[k].state = "started"
    /\ tasks' = [tasks EXCEPT ![t].calls = gather(@, k, result)]
    /\ UNCHANGED <<handlers, queue, unfinished, running, worker_task, pub, stopper,
                   published, accepted, taken>>
    /\ UNCHANGED <<dbvars, alertvars, unitvars>>

\* lines 134-142: handlers[i] is read for every raised result; handlers is the
\* list of self._handlers itself, which unsubscribe may have shortened
LoggingRaises(task) ==
    \E i \in DOMAIN task.calls :
       task.calls[i].state = "raised" /\ i > Len(handlers[task.event.type])

\* A variant in which the dispatcher goes on as soon as one call is over.
WorkerTaskDoneEarly(t) ==
    /\ tasks[t].pc = "gather"
    /\ \E k \in DOMAIN tasks[t].calls :
          tasks[t].calls[k].state \notin {"scheduled", "started"}
    /\ unfinished' = unfinished - 1
    /\ tasks' = [tasks EXCEPT ![t].pc = LoopHead]
    /\ UNCHANGED <<handlers, queue, running, worker_task, pub, stopper, published, accepted, taken>>
    /\ UNCHANGED <<dbvars, alertvars, unitvars>>

\* lines 128-142, 171, 176-177: gather() is complete; the results are logged
\* and task_done() is called, unless the logging raised, which _worker logs
WorkerTaskDone(t) ==
    /\ tasks[t].pc = "gather"
    /\ \A k \in DOMAIN tasks[t].calls :
          tasks[t].calls[k].state \notin {"scheduled", "started"}
    /\ unfinished' = IF LoggingRaises(tasks[t]) THEN unfinished ELSE unfinished - 1
    /\ tasks' = [tasks EXCEPT ![t] = [pc |-> LoopHead, event |-> NULL, calls |-> <<>>]]
    /\ UNCHANGED <<handlers, queue, running, worker_task, pub, stopper, published, accepted, taken>>
    /\ UNCHANGED <<dbvars, alertvars, unitvars>>

\* lines 173-175: CancelledError ends the loop
WorkerCancelled(t) ==
    /\ tasks[t].pc = "cancelling"
    /\ tasks' = [tasks EXCEPT ![t] = [pc |-> "done", event |-> NULL, calls |-> <<>>]]
    /\ UNCHANGED <<handlers, queue, unfinished, running, worker_task, pub, stopper,
                   published, accepted, taken>>
    /\ UNCHANGED <<dbvars, alertvars, unitvars>>

(***************************************************************************)
(* SpecBus: dispatch on a started bus.  One publisher publishes up to      *)
(* MaxEvents events of two types while handlers are subscribed and         *)
(* unsubscribed at any time.                                               *)
(***************************************************************************)
NextBus ==
    \/ \E e \in EventTypes, h \in HandlerNames : Subscribe(e, h)
    \/ \E e \in EventTypes, h \in HandlerNames : Unsubscribe(e, h)
    \/ \E e \in EventTypes : Publish(1, e, MaxEvents)
    \/ Start
    \/ \E t \in DOMAIN tasks : WorkerBegin(t)
    \/ \E t \in DOMAIN tasks : WorkerGet(t)
    \/ \E t \in DOMAIN tasks, k \in 1..MaxRegs : CallHandler(t, k)
    \/ \E t \in DOMAIN tasks, k \in 1..MaxRegs, r \in HandlerResults : HandlerDone(t, k, r)
    \/ \E t \in DOMAIN tasks : WorkerTaskDone(t)

SpecBus == DigestInit /\ [][NextBus]_vars

(***************************************************************************)
(* SpecQueue: the bounded queue.  Two publishers use publish and           *)
(* publish_nowait for up to MaxQueueEvents events of one type, which one   *)
(* handler receives once the bus is started.                               *)
(***************************************************************************)
NextQueue ==
    \/ \E p \in Publishers : Publish(p, "DigestReady", MaxQueueEvents)
    \/ \E p \in Publishers : PublishResume(p)
    \/ \E p \in Publishers : PublishNowait(p, "DigestReady", MaxQueueEvents)
    \/ Subscribe("DigestReady", "h1")
    \/ Start
    \/ \E t \in DOMAIN tasks : WorkerBegin(t)
    \/ \E t \in DOMAIN tasks : WorkerGet(t)
    \/ \E t \in DOMAIN tasks : CallHandler(t, 1)
    \/ \E t \in DOMAIN tasks, r \in HandlerResults : HandlerDone(t, 1, r)
    \/ \E t \in DOMAIN tasks : WorkerTaskDone(t)

SpecQueue == DigestInit /\ [][NextQueue]_vars

(***************************************************************************)
(* SpecLifecycle: start() and stop() at any time, with one handler and a   *)
(* publisher that does not wait.                                           *)
(***************************************************************************)
NextLifecycle ==
    \/ PublishNowait(1, "DigestReady", MaxEvents)
    \/ Subscribe("DigestReady", "h1")
    \/ Start
    \/ Stop
    \/ StopJoinDone
    \/ StopJoinTimeout
    \/ StopWorkerAwaited
    \/ \E t \in DOMAIN tasks : WorkerBegin(t)
    \/ \E t \in DOMAIN tasks : WorkerGet(t)
    \/ \E t \in DOMAIN tasks : WorkerTimeout(t)
    \/ \E t \in DOMAIN tasks : CallHandler(t, 1)
    \/ \E t \in DOMAIN tasks, r \in HandlerResults : HandlerDone(t, 1, r)
    \/ \E t \in DOMAIN tasks : WorkerTaskDone(t)
    \/ \E t \in DOMAIN tasks : WorkerCancelled(t)

SpecLifecycle == DigestInit /\ [][NextLifecycle]_vars

(***************************************************************************)
(* SpecDelivery: a bus that is started at some time and never stopped.     *)
(* Up to MaxDeliveryEvents events of two types are published with publish  *)
(* and publish_nowait, before and after start(), while a handler of one of *)
(* the types is subscribed and unsubscribed.  The event loop runs every    *)
(* coroutine that is ready: the steps of the dispatcher task and of the    *)
(* handlers it awaits are weakly fair, and so is the resumption of a       *)
(* waiting put().                                                          *)
(***************************************************************************)
MaxDeliveryEvents == 3

DispatcherStep ==
    \/ \E t \in DOMAIN tasks : WorkerBegin(t)
    \/ \E t \in DOMAIN tasks : WorkerGet(t)
    \/ \E t \in DOMAIN tasks, k \in 1..MaxRegs : CallHandler(t, k)
    \/ \E t \in DOMAIN tasks, k \in 1..MaxRegs, r \in HandlerResults : HandlerDone(t, k, r)
    \/ \E t \in DOMAIN tasks : WorkerTaskDone(t)

NextDelivery ==
    \/ Subscribe("DigestReady", "h1")
    \/ Unsubscribe("DigestReady", "h1")
    \/ \E e \in EventTypes : Publish(1, e, MaxDeliveryEvents)
    \/ PublishResume(1)
    \/ PublishNowait(1, "DigestReady", MaxDeliveryEvents)
    \/ Start
    \/ DispatcherStep

SpecDelivery ==
    DigestInit /\ [][NextDelivery]_vars /\ WF_vars(DispatcherStep) /\ WF_vars(PublishResume(1))

(***************************************************************************)
(* ErrorAlertService.handle_collector_failed and DigestBot.send_message.   *)
(***************************************************************************)
\* A variant that compares with > instead of >=.
should_alert_strict(la, source_id, t) ==
    LET last_alert == la[source_id]
    IN  IF last_alert = NULL THEN TRUE ELSE t - last_alert > ALERT_COOLDOWN

\* A variant with one cooldown for all sources.
should_alert_any_source(la, source_id, t) ==
    \A s \in AlertSources : la[s] = NULL \/ t - la[s] >= ALERT_COOLDOWN

\* lines 85-101: _should_alert
should_alert(la, source_id, t) ==
    LET last_alert == la[source_id]
    IN  IF last_alert = NULL THEN TRUE ELSE t - last_alert >= ALERT_COOLDOWN

\* lines 122-123: source.name
SourceName(source_id) == <<"Source", source_id>>

\* line 68: f"Unknown ({event.source_id})"
UnknownName(source_id) == <<"Unknown", source_id>>

\* telegram/bot.py lines 96-124: the message id, or None when the bot is not
\* started, has no chat id, or the API call raised
send_message(app, chat_id, api) ==
    IF ~app THEN NULL
    ELSE IF chat_id = NULL THEN NULL
         ELSE IF api = "ok" THEN 7 ELSE NULL

\* send_message reaches its await of the API call only past the two guards
SendAwaitsApi(app, chat_id) == app /\ chat_id # NULL

LookupOutcomes == {"found", "missing", "raise"}
ApiOutcomes == {"ok", "error"}
ChatIds == {NULL, 1}

AlertsInHand == Cardinality({a \in AlertSlots : alert[a].pc \notin Over})

LogEntry(a, kind) ==
    [source_id |-> alert[a].source_id, name |-> alert[a].name, at |-> now_utc, kind |-> kind]

\* lines 48-63: the cooldown check, up to the await of the lookup
HandleCollectorFailed(a, event) ==
    /\ alert[a].pc \in Over
    /\ Len(alert_log) + AlertsInHand < MaxAlertEvents
    /\ IF should_alert(last_alerts, event.source_id, now_utc)
       THEN /\ alert' = [alert EXCEPT ![a] = [pc |-> "lookup", source_id |-> event.source_id,
                                                name |-> <<>>]]
            /\ UNCHANGED alert_log
       ELSE /\ alert' = [alert EXCEPT ![a] = [pc |-> "returned", source_id |-> event.source_id,
                                                name |-> <<>>]]
            /\ alert_log' = Append(alert_log,
                                   [source_id |-> event.source_id, name |-> <<>>,
                                    at |-> now_utc, kind |-> "suppressed"])
    /\ UNCHANGED <<last_alerts, now_utc>>
    /\ UNCHANGED <<dbvars, busvars, unitvars>>

\* lines 79-81: send_message returned; the time is recorded whatever it returned
AfterSend(a, name, message_id) ==
    /\ last_alerts' = [last_alerts EXCEPT ![alert[a].source_id] = now_utc]
    /\ alert' = [alert EXCEPT ![a].pc = "returned", ![a].name = name]
    /\ alert_log' = Append(alert_log,
                           [source_id |-> alert[a].source_id, name |-> name, at |-> now_utc,
                            kind |-> IF message_id # NULL THEN "delivered" ELSE "undelivered"])

\* lines 63-79: the lookup returns or raises; the name falls back to the
\* placeholder; the message is formatted and send_message is called, which
\* returns at once when the bot is not started or has no chat id
GetAlertContext(a, o, app, chat_id) ==
    /\ alert[a].pc = "lookup"
    /\ IF o = "raise"
       THEN /\ alert' = [alert EXCEPT ![a].pc = "raised"]
            /\ alert_log' = Append(alert_log, LogEntry(a, "lookup raised"))
            /\ UNCHANGED last_alerts
       ELSE LET source_name == IF o = "found" THEN SourceName(alert[a].source_id)
                                             ELSE UnknownName(alert[a].source_id)
            IN  IF SendAwaitsApi(app, chat_id)
                THEN /\ alert' = [alert EXCEPT ![a].pc = "send", ![a].name = source_name]
                     /\ UNCHANGED <<last_alerts, alert_log>>
                ELSE AfterSend(a, source_name, send_message(app, chat_id, "ok"))
    /\ UNCHANGED now_utc
    /\ UNCHANGED <<dbvars, busvars, unitvars>>

\* bot.py lines 115-124, then lines 80-81: the API call returned or raised
SendDone(a, api) ==
    /\ alert[a].pc = "send"
    /\ AfterSend(a, alert[a].name, send_message(TRUE, 1, api))
    /\ UNCHANGED now_utc
    /\ UNCHANGED <<dbvars, busvars, unitvars>>

\* lines 82-83: the send_message of the collaborator raised
SendRaises(a) ==
    /\ alert[a].pc = "send"
    /\ alert' = [alert EXCEPT ![a].pc = "returned"]
    /\ alert_log' = Append(alert_log, LogEntry(a, "send raised"))
    /\ UNCHANGED <<last_alerts, now_utc>>
    /\ UNCHANGED <<dbvars, busvars, unitvars>>

\* time passes
Tick ==
    /\ now_utc < MaxTime
    /\ now_utc' = now_utc + 1
    /\ UNCHANGED <<last_alerts, alert, alert_log>>
    /\ UNCHANGED <<dbvars, busvars, unitvars>>

(***************************************************************************)
(* SpecAlerts: CollectorFailed events of two sources handled one after     *)
(* another; every lookup returns and every alert is delivered.             *)
(***************************************************************************)
NextAlerts ==
    \/ \E s \in AlertSources : HandleCollectorFailed(1, CollectorFailed(s, "auth"))
    \/ \E o \in {"found", "missing"} : GetAlertContext(1, o, TRUE, 1)
    \/ SendDone(1, "ok")
    \/ Tick

SpecAlerts == DigestInit /\ [][NextAlerts]_vars

(***************************************************************************)
(* SpecAlertFaults: events handled one after another; the lookup may raise *)
(* and the alert may not be delivered.                                     *)
(***************************************************************************)
NextAlertFaults ==
    \/ \E s \in AlertSources : HandleCollectorFailed(1, CollectorFailed(s, "auth"))
    \/ \E o \in LookupOutcomes, app \in BOOLEAN, chat_id \in ChatIds :
          GetAlertContext(1, o, app, chat_id)
    \/ \E api \in ApiOutcomes : SendDone(1, api)
    \/ SendRaises(1)
    \/ Tick

SpecAlertFaults == DigestInit /\ [][NextAlertFaults]_vars

(***************************************************************************)
(* SpecAlertOverlap: two invocations of the handler that may overlap (the  *)
(* handler registered twice, or two callers); every alert is delivered.    *)
(***************************************************************************)
NextAlertOverlap ==
    \/ \E a \in AlertSlots, s \in AlertSources :
          HandleCollectorFailed(a, CollectorFailed(s, "auth"))
    \/ \E a \in AlertSlots, o \in {"found", "missing"} : GetAlertContext(a, o, TRUE, 1)
    \/ \E a \in AlertSlots : SendDone(a, "ok")
    \/ Tick

SpecAlertOverlap == DigestInit /\ [][NextAlertOverlap]_vars

(***************************************************************************)
(* ItemRepositoryImpl.upsert and upsert_many                               *)
(* (infrastructure/database/repository.py).  A row carries the columns the *)
(* statement writes that the pipeline reads back; item_type and            *)
(* external_created_at, written by the INSERT only, are left out.          *)
(***************************************************************************)
\* The DigestItem values handed to upsert.
ItemInputs ==
    {[source_id |-> s, external_id |-> e, title |-> p.title, content |-> p.content,
      content_hash |-> p.content_hash] :
        s \in ItemSources, e \in ExternalIds, p \in Payloads}

\* models.py 81: UniqueConstraint("source_id", "external_id")
ItemKey(r) == <<r.source_id, r.external_id>>

\* The row the INSERT proposes (repository.py 215-229).
InsertedRow(item, uuid4, fetched_at) ==
    [id |-> uuid4, source_id |-> item.source_id, external_id |-> item.external_id,
     title |-> item.title, content |-> item.content,
     content_hash |-> item.content_hash, fetched_at |-> fetched_at]

\* An INSERT without the ON CONFLICT clause that did not fail.
upsert_always_inserts(rows, item, uuid4, fetched_at) ==
    [rows |-> rows \cup {InsertedRow(item, uuid4, fetched_at)}, id |-> uuid4]

\* lines 213-244: INSERT ... ON CONFLICT (source_id, external_id) DO UPDATE SET
\* title, content, content_hash, ..., fetched_at RETURNING id.
ItemRepositoryImpl_upsert(rows, item, uuid4, fetched_at) ==
    LET hit == {r \in rows : ItemKey(r) = ItemKey(item)}
    IN  IF hit = {}
        THEN [rows |-> rows \cup {InsertedRow(item, uuid4, fetched_at)}, id |-> uuid4]
        ELSE [rows |-> (rows \ hit) \cup
                       {[r EXCEPT !.title = item.title, !.content = item.content,
                                  !.content_hash = item.content_hash,
                                  !.fetched_at = fetched_at] : r \in hit},
              id |-> (CHOOSE r \in hit : TRUE).id]

\* A call of upsert.
Upsert(item) ==
    /\ upserts < MaxUpserts
    /\ LET r == ItemRepositoryImpl_upsert(item_rows, item, upserts + 1, upserts + 1)
       IN  /\ item_rows' = r.rows
           /\ returned' = r.id
    /\ upserts' = upserts + 1
    /\ UNCHANGED <<batch, hashvars, regvars, dbvars, busvars, alertvars, left_over, schedvars>>

\* lines 246-252: upsert_many is called with the items one collector returned
\* for its source (digest_service.py 224).
UpsertManyItems(its) ==
    /\ batch.pc \in {"idle", "returned"}
    /\ upserts + Len(its) <= MaxUpserts
    /\ \A k \in 1..Len(its) : its[k].source_id = its[1].source_id
    /\ batch' = [pc |-> "upserting", pending |-> its, done |-> <<>>, ids |-> <<>>]
    /\ UNCHANGED <<item_rows, upserts, returned, hashvars, regvars, dbvars, busvars, alertvars, left_over, schedvars>>

\* lines 249-251: await self.upsert(item); ids.append(item_id)
UpsertNext ==
    /\ batch.pc = "upserting"
    /\ batch.pending # <<>>
    /\ LET r == ItemRepositoryImpl_upsert(item_rows, Head(batch.pending),
                                          upserts + 1, upserts + 1)
       IN  /\ item_rows' = r.rows
           /\ batch' = [batch EXCEPT !.pending = Tail(@), !.ids = Append(@, r.id),
                                     !.done = Append(@, ItemKey(Head(batch.pending))),
                                     !.pc = IF Tail(batch.pending) = <<>>
                                            THEN "returned" ELSE @]
    /\ upserts' = upserts + 1
    /\ UNCHANGED <<returned, hashvars, regvars, dbvars, busvars, alertvars, left_over, schedvars>>

NextItems ==
    \/ \E item \in ItemInputs : Upsert(item)
    \/ \E a, b \in ItemInputs : UpsertManyItems(<<a, b>>)
    \/ UpsertNext

SpecItems == DigestInit /\ [][NextItems]_vars

(***************************************************************************)
(* BaseCollector.compute_content_hash and create_digest_item               *)
(* (infrastructure/collectors/base.py).  A dict is the sequence of its     *)
(* <<key, value>> pairs in insertion order; a value is None or a string.   *)
(***************************************************************************)
None == [t |-> "null", s |-> ""]
Str(s) == [t |-> "str", s |-> s]

FieldTexts == <<"null", "open", "done">>
FieldValues == {None} \cup {Str(FieldTexts[k]) : k \in 1..MaxFieldValues}

\* The keys of hash_content as sorted() orders them.
SortedKeys == <<"assignee", "priority", "status", "title", "updated_at">>

Keys(m) == {m[k][1] : k \in DOMAIN m}
IndexOf(m, key) == (CHOOSE k \in DOMAIN m : m[k][1] = key)
Value(m, key) == m[IndexOf(m, key)][2]

\* json.dumps of a value: null, or the string in double quotes.
json_value(v) == IF v.t = "null" THEN "null" ELSE "\"" \o v.s \o "\""

\* The members "key":value of the keys ks, joined by ",".
RECURSIVE json_members(_, _)
json_members(m, ks) ==
    IF ks = <<>>
    THEN ""
    ELSE "\"" \o Head(ks) \o "\":" \o json_value(Value(m, Head(ks)))
         \o (IF Tail(ks) = <<>> THEN "" ELSE ",")
         \o json_members(m, Tail(ks))

InsertionOrder(m) == [k \in DOMAIN m |-> m[k][1]]

\* json.dumps(content, separators=(",", ":")), without sort_keys.
json_dumps_unsorted(m) == "{" \o json_members(m, InsertionOrder(m)) \o "}"

\* line 115: json.dumps(content, sort_keys=True, separators=(",", ":"))
json_dumps(m) ==
    "{" \o json_members(m, SelectSeq(SortedKeys, LAMBDA key : key \in Keys(m))) \o "}"

\* line 116: hashlib.sha256(...).hexdigest(), taken to be free of collisions
\* on the texts hashed here: the digest stands for the text it was made from.
sha256_hexdigest(text) == <<"sha256", text>>

\* lines 99-116
compute_content_hash(m) == sha256_hexdigest(json_dumps(m))

\* lines 147-155: hash_content, from title, content and external_updated_at.
HashContent(title, status, priority, assignee, updated_at) ==
    << <<"title", title>>, <<"status", status>>, <<"priority", priority>>,
       <<"assignee", assignee>>, <<"updated_at", updated_at>> >>

\* lines 118-156: create_digest_item
CreateDigestItem(title, status, priority, assignee, updated_at) ==
    /\ hash_content' = HashContent(title, status, priority, assignee, updated_at)
    /\ content_hash' = compute_content_hash(hash_content')
    /\ UNCHANGED <<itemvars, regvars, dbvars, busvars, alertvars, left_over, schedvars>>

NextHash ==
    \E title, status, priority, assignee, updated_at \in FieldValues :
        CreateDigestItem(title, status, priority, assignee, updated_at)

SpecHash == DigestInit /\ [][NextHash]_vars

(***************************************************************************)
(* CollectorRegistry (infrastructure/collectors/base.py 215-282).  The     *)
(* dict _collectors is a function whose domain is the set of its keys.     *)
(***************************************************************************)
RegistryTags == {"jira", "gmail", "slack"}
CollectorClasses == {"JiraCollector", "GmailCollector"}

NoneValue == [kind |-> "None"]
ClassValue(c) == [kind |-> "class", class |-> c]
InstanceValue(c, n) == [kind |-> "instance", class |-> c, id |-> n]
Raised(e) == [kind |-> "raise", exc |-> e]

\* line 233: cls._collectors[source_type] = collector_class
CollectorRegistry_register(reg, source_type, collector_class) ==
    [tag \in DOMAIN reg \cup {source_type} |->
        IF tag = source_type THEN collector_class ELSE reg[tag]]

\* cls._collectors[source_type]
get_by_subscript(reg, source_type) ==
    IF source_type \in DOMAIN reg THEN ClassValue(reg[source_type]) ELSE Raised("KeyError")

\* line 256: cls._collectors.get(source_type)
CollectorRegistry_get(reg, source_type) ==
    IF source_type \in DOMAIN reg THEN ClassValue(reg[source_type]) ELSE NoneValue

\* The decorator CollectorRegistry.register(source_type) applied to a class.
Register(source_type, collector_class) ==
    /\ Len(registrations) < MaxRegistrations
    /\ collectors' = CollectorRegistry_register(collectors, source_type, collector_class)
    /\ registrations' = Append(registrations, <<source_type, collector_class>>)
    /\ resolved' = [op |-> "register", tag |-> source_type, ret |-> ClassValue(collector_class)]
    /\ UNCHANGED <<instances, itemvars, hashvars, dbvars, busvars, alertvars, left_over, schedvars>>

\* lines 245-256: get
RegistryGet(source_type) ==
    /\ resolved' = [op |-> "get", tag |-> source_type,
                    ret |-> CollectorRegistry_get(collectors, source_type)]
    /\ UNCHANGED <<collectors, instances, registrations, itemvars, hashvars,
                   dbvars, busvars, alertvars, left_over, schedvars>>

\* lines 268-282: create
RegistryCreate(source_type) ==
    LET collector_class == CollectorRegistry_get(collectors, source_type)
        n == Cardinality(instances) + 1
    IN  IF collector_class.kind = "class"
        THEN /\ n <= MaxInstances
             /\ instances' = instances \cup {n}
             /\ resolved' = [op |-> "create", tag |-> source_type,
                             ret |-> InstanceValue(collector_class.class, n)]
             /\ UNCHANGED <<collectors, registrations, itemvars, hashvars,
                            dbvars, busvars, alertvars, left_over, schedvars>>
        ELSE /\ resolved' = [op |-> "create", tag |-> source_type, ret |-> collector_class]
             /\ UNCHANGED <<collectors, instances, registrations, itemvars, hashvars,
                            dbvars, busvars, alertvars, left_over, schedvars>>

NextRegistry ==
    \/ \E tag \in RegistryTags, c \in CollectorClasses : Register(tag, c)
    \/ \E tag \in RegistryTags : RegistryGet(tag)
    \/ \E tag \in RegistryTags : RegistryCreate(tag)

SpecRegistry == DigestInit /\ [][NextRegistry]_vars

(***************************************************************************)
(* DigestScheduler.  The calls run one after the other; what the calls of  *)
(* the APScheduler library do is an input of each step.                    *)
(***************************************************************************)
LibraryOutcomes == {"ok", "raise"}

\* AsyncScheduler.remove_schedule(id)
Removed(st, id) == {r \in st : r.id # id}

\* AsyncScheduler.add_schedule(func, trigger, id=...): the schedule under the id
Added(st, s) == Removed(st, s.id) \cup {[id |-> s.id, cron_expression |-> s.cron_expression]}

\* CronTrigger.from_crontab: a crontab expression has five fields
ValidCron(c) == Len(c) = 5

\* A variant of lines 89-95 that leaves the schedule of an inactive s in place.
add_schedule_keep_inactive(st, s, rm, add) ==
    IF scheduler = "None" \/ job_func = "None" THEN [stored |-> st, exc |-> "RuntimeError"]
    ELSE IF ~s.is_active THEN [stored |-> st, exc |-> ""]
    ELSE IF ~ValidCron(s.cron_expression) THEN [stored |-> Removed(st, s.id), exc |-> "ValueError"]
    ELSE IF add = "raise" THEN [stored |-> Removed(st, s.id), exc |-> "Exception"]
    ELSE [stored |-> Added(st, s), exc |-> ""]

\* lines 72-130: the schedules the call leaves and the exception it raises,
\* "" when it returns; rm and add are the outcomes of the two library calls
add_schedule(st, s, rm, add) ==
    IF scheduler = "None" THEN [stored |-> st, exc |-> "RuntimeError"]
    ELSE IF job_func = "None" THEN [stored |-> st, exc |-> "RuntimeError"]
    ELSE LET st1 == IF rm = "ok" THEN Removed(st, s.id) ELSE st
         IN  IF ~s.is_active THEN [stored |-> st1, exc |-> ""]
             ELSE IF ~ValidCron(s.cron_expression)
                  THEN [stored |-> st1, exc |-> "ValueError"]
             ELSE IF add = "raise" THEN [stored |-> st1, exc |-> "Exception"]
             ELSE [stored |-> Added(st1, s), exc |-> ""]

NoCall == sched.pc \in {"idle", "returned", "raised"}

BeginCall(op, arg) ==
    [IdleSched EXCEPT !.op = op, !.arg = arg,
                      !.ready = (scheduler # "None" /\ job_func # "None")]

\* lines 40-47
SetJobFunction ==
    /\ NoCall
    /\ job_func' = "job"
    /\ UNCHANGED <<scheduler, stored, sched>>
    /\ UNCHANGED <<dbvars, busvars, alertvars, itemvars, hashvars, regvars, left_over>>

\* lines 49-61
SchedulerStart ==
    /\ NoCall
    /\ scheduler' = "AsyncScheduler"
    /\ UNCHANGED <<job_func, stored, sched>>
    /\ UNCHANGED <<dbvars, busvars, alertvars, itemvars, hashvars, regvars, left_over>>

\* lines 63-70
SchedulerStop ==
    /\ NoCall
    /\ scheduler' = "None"
    /\ UNCHANGED <<job_func, stored, sched>>
    /\ UNCHANGED <<dbvars, busvars, alertvars, itemvars, hashvars, regvars, left_over>>

\* lines 72-130
AddSchedule(s, rm, add) ==
    /\ NoCall
    /\ LET r == add_schedule(stored, s, rm, add)
       IN  /\ stored' = r.stored
           /\ sched' = [BeginCall("add_schedule", <<s>>) EXCEPT
                           !.pc = IF r.exc = "" THEN "returned" ELSE "raised",
                           !.exc = r.exc, !.before = stored]
    /\ UNCHANGED <<scheduler, job_func>>
    /\ UNCHANGED <<dbvars, busvars, alertvars, itemvars, hashvars, regvars, left_over>>

\* lines 132-151
RemoveSchedule(id, rm) ==
    /\ NoCall
    /\ IF scheduler = "None"
       THEN /\ sched' = [BeginCall("remove_schedule", <<>>) EXCEPT
                            !.pc = "raised", !.exc = "RuntimeError"]
            /\ UNCHANGED stored
       ELSE /\ sched' = [BeginCall("remove_schedule", <<>>) EXCEPT !.pc = "returned"]
            /\ stored' = IF rm = "ok" THEN Removed(stored, id) ELSE stored
    /\ UNCHANGED <<scheduler, job_func>>
    /\ UNCHANGED <<dbvars, busvars, alertvars, itemvars, hashvars, regvars, left_over>>

\* lines 153-164: sync_schedules(schedules) is called
SyncSchedules(schedules) ==
    /\ NoCall
    /\ sched' = IF scheduler = "None"
                THEN [BeginCall("sync_schedules", schedules) EXCEPT
                         !.pc = "raised", !.exc = "RuntimeError"]
                ELSE [BeginCall("sync_schedules", schedules) EXCEPT
                         !.pc = "loop", !.todo = schedules]
    /\ UNCHANGED <<scheduler, job_func, stored>>
    /\ UNCHANGED <<dbvars, busvars, alertvars, itemvars, hashvars, regvars, left_over>>

\* lines 167-175: one round of the loop; an exception of add_schedule is logged
SyncAdd(rm, add) ==
    /\ sched.pc = "loop"
    /\ sched.todo # <<>>
    /\ LET r == add_schedule(stored, Head(sched.todo), rm, add)
       IN  /\ stored' = r.stored
           /\ sched' = [sched EXCEPT !.todo = Tail(@),
                                      !.exc = IF r.exc = "" THEN @ ELSE r.exc]
    /\ UNCHANGED <<scheduler, job_func>>
    /\ UNCHANGED <<dbvars, busvars, alertvars, itemvars, hashvars, regvars, left_over>>

\* line 177: the loop is over, the call returns
SyncReturn ==
    /\ sched.pc = "loop"
    /\ sched.todo = <<>>
    /\ sched' = [sched EXCEPT !.pc = "returned"]
    /\ UNCHANGED <<scheduler, job_func, stored>>
    /\ UNCHANGED <<dbvars, busvars, alertvars, itemvars, hashvars, regvars, left_over>>

\* The lists of schedules of the database, in the order of their ids: no two
\* have the same id.
ScheduleLists ==
    {l \in UNION {[1..n -> Schedules] : n \in 0..MaxSchedules} :
        \A i, j \in DOMAIN l : i < j => l[i].id < l[j].id}

\* AsyncScheduler.remove_schedule raises when it finds no schedule to remove.
RemoveOutcomes(id) == IF Removed(stored, id) = stored THEN LibraryOutcomes ELSE {"ok"}

(***************************************************************************)
(* SpecScheduler: a scheduler that is given its job function, started and  *)
(* stopped, and whose schedules are added, removed and synchronised, over  *)
(* a data store that is available.                                         *)
(***************************************************************************)
NextScheduler ==
    \/ SetJobFunction
    \/ SchedulerStart
    \/ SchedulerStop
    \/ \E s \in Schedules, add \in LibraryOutcomes :
          \E rm \in RemoveOutcomes(s.id) : AddSchedule(s, rm, add)
    \/ \E id \in ScheduleIds : \E rm \in RemoveOutcomes(id) : RemoveSchedule(id, rm)
    \/ \E l \in ScheduleLists : SyncSchedules(l)
    \/ \E rm \in LibraryOutcomes, add \in LibraryOutcomes :
          /\ sched.todo # <<>>
          /\ rm \in RemoveOutcomes(Head(sched.todo).id)
          /\ SyncAdd(rm, add)
    \/ SyncReturn

SpecScheduler == DigestInit /\ [][NextScheduler]_vars

(***************************************************************************)
(* SpecEndToEnd: the application as lifespan wires it (api/app.py 47-87):  *)
(* the bus is started, handle_collector_failed is subscribed to            *)
(* CollectorFailed, and one generate_digest runs on that bus for the one   *)
(* active source of project p2, whose collector raises a CollectorError.   *)
(* Every database call returns.  The events the pipeline publishes are the *)
(* entries of its log: entry n is put on the queue as event n before the   *)
(* coroutine runs on.                                                      *)
(***************************************************************************)
PipelineEventTypes ==
    {"CollectionStarted", "CollectionCompleted", "CollectorFailed", "DigestReady",
     "DigestFailed", "DigestSent"}

\* app.py 48-50 and 80-86: start(), then subscribe(CollectorFailed, ...)
LifespanInit ==
    /\ handlers = [e \in PipelineEventTypes |->
                      IF e = "CollectorFailed" THEN <<"h1">> ELSE <<>>]
    /\ queue = <<>>
    /\ unfinished = 0
    /\ running = TRUE
    /\ worker_task = 1
    /\ tasks = <<NewTask>>
    /\ pub = [p \in Publishers |-> IdlePub]
    /\ stopper = IdleStop
    /\ published = 0
    /\ accepted = <<>>
    /\ taken = <<>>

EndToEndInit ==
    /\ items = [i \in Items |-> NULL]
    /\ digests = <<>>
    /\ digest_items = {}
    /\ last_synced_at = [s \in Sources |-> NULL]
    /\ collector_errors = <<>>
    /\ clock = 0
    /\ status_log = <<>>
    /\ ready = {}
    /\ confirmed = {}
    /\ fresh = [i \in Items |-> {}]
    /\ gen = [g \in Gens |-> IdleGen]
    /\ mk = IdleMark
    /\ LifespanInit
    /\ AlertInit
    /\ UnitInit

\* Every event the pipeline published has been put on the queue.
AllPublished == published = Len(gen[1].log) /\ pub[1].pc = "idle"

\* digest_service.py 203, 261, ...: await self._bus.publish(event)
PipelinePublish ==
    /\ published < Len(gen[1].log)
    /\ Publish(1, gen[1].log[published + 1].type, Len(gen[1].log))

\* The invocations of handle_collector_failed begun so far, and the
\* CollectorFailed events taken from the queue so far.
AlertsBegun == Len(alert_log) + AlertsInHand
FailuresTaken ==
    Cardinality({k \in DOMAIN taken : gen[1].log[taken[k]].type = "CollectorFailed"})

\* memory.py 155: await handler(event) enters handle_collector_failed
EnterHandler(t) ==
    /\ tasks[t].pc = "gather"
    /\ tasks[t].calls[1].state = "started"
    /\ AlertsBegun < FailuresTaken
    /\ HandleCollectorFailed(1, gen[1].log[tasks[t].event.id])

\* memory.py 155-156: handle_collector_failed returned or raised
LeaveHandler(t) ==
    /\ tasks[t].pc = "gather"
    /\ AlertsBegun = FailuresTaken
    /\ AlertsInHand = 0
    /\ HandlerDone(t, 1, IF alert[1].pc = "raised" THEN "raised" ELSE "returned")

\* The steps of the coroutines once generate_digest was called.
EndToEndProgress ==
    \/ AllPublished /\ UpdateCollecting(1, "ok")
    \/ AllPublished /\ GetSources(1, "ok")
    \/ AllPublished /\ Collect(1, "CollectorError")
    \/ AllPublished /\ RecordError(1, "ok")
    \/ AllPublished /\ CloseCollector(1, "ok")
    \/ AllPublished /\ UpdateSentEmpty(1, "ok")
    \/ PipelinePublish
    \/ WorkerBegin(1)
    \/ WorkerGet(1)
    \/ CallHandler(1, 1)
    \/ EnterHandler(1)
    \/ \E chat_id \in ChatIds : GetAlertContext(1, "found", TRUE, chat_id)
    \/ \E api \in ApiOutcomes : SendDone(1, api)
    \/ LeaveHandler(1)
    \/ WorkerTaskDone(1)

NextEndToEnd ==
    \/ GenerateDigest(1, {"p2"}, "ok", 1)
    \/ EndToEndProgress
    \/ Tick

\* The event loop runs every coroutine that can run, and every awaited call
\* of this scenario returns.
SpecEndToEnd ==
    EndToEndInit /\ [][NextEndToEnd]_vars /\ WF_vars(EndToEndProgress)

\* The pipeline with every fault, from the empty database.
SpecSeed == DigestInit /\ [][NextFaults]_vars

\* The seeded database of SpecFaults without the item of source 3, with no
\* call under way, is a state of SpecSeed (this negation is violated there).
SeedNotReached ==
    ~(/\ items = [i \in Items |-> IF i = 1 THEN 1 ELSE NULL]
      /\ SeedRows
      /\ (\A g \in Gens : gen[g].pc \in Over) /\ mk.pc \in Over)

(***************************************************************************)
(* The claims.                                                             *)
(***************************************************************************)
Range(f) == {f[k] : k \in DOMAIN f}
IsPrefix(s, t) == Len(s) <= Len(t) /\ \A k \in 1..Len(s) : s[k] = t[k]
Published(log, type) == {k \in DOMAIN log : log[k].type = type}

\* The sent digests whose ledger holds item i, and the one sent last.
ShownIn(i) ==
    {d \in DOMAIN digests : /\ digests[d].status = "sent"
                            /\ \E r \in digest_items : r.digest_id = d /\ r.item_id = i}
MostRecentlySent(i) ==
    CHOOSE d \in ShownIn(i) : \A e \in ShownIn(i) : digests[d].sent_at >= digests[e].sent_at
HashShown(d, i) ==
    (CHOOSE r \in digest_items : r.digest_id = d /\ r.item_id = i).content_hash_at_send
ChangedNow(s) == get_changed_since_last_digest(items, digests, digest_items, s)

\* C1: for every source s and stored item i of s, the changed-set of s leaves i
\* out exactly when i is in the ledger of a sent digest and the ledger entry of
\* the digest sent last records i's current hash; the changed-set of s holds
\* only items of s, each with its current hash.
C1_ChangedSinceLastSent ==
    \A s \in Sources :
       /\ \A p \in ChangedNow(s) :
             ItemSource(p[1]) = s /\ items[p[1]] # NULL /\ p[2] = items[p[1]]
       /\ \A i \in ItemsOf(s) :
             items[i] # NULL =>
                ((~\E p \in ChangedNow(s) : p[1] = i)
                   <=> (/\ ShownIn(i) # {}
                        /\ HashShown(MostRecentlySent(i), i) = items[i]))

\* C1 witness: a run has just computed the changed-set of a source and left out
\* an item that two sent digests show with different hashes.
C1_Witness ==
    \E g \in Gens, i \in Items :
       /\ gen[g].pc = "close"
       /\ gen[g].source = ItemSource(i)
       /\ items[i] # NULL
       /\ \A p \in gen[g].result : p[1] # i
       /\ \E d \in ShownIn(i), e \in ShownIn(i) : HashShown(d, i) # HashShown(e, i)

\* C2: no two digests that were announced by DigestReady and confirmed sent
\* include the same item with the hash it still has (no unchanged item is
\* shown twice).
C2_UnchangedNeverShownTwice ==
    \A i \in Items :
       Cardinality({d \in fresh[i] \cap ready : digests[d].status = "sent"}) <= 1

\* The exceptions raised outside the per-source block of _collect_from_source.
OutsideFaults ==
    {"create failed", "update_status failed", "get_active failed", "format failed",
     "add_items failed", "handler failed"}

\* C3: when the processing of a source raised and nothing outside the source
\* loop did, the run processes every source of the candidate set and returns:
\* the digest does not fail.
C3_SourceFailureIsolated ==
    \A g \in Gens :
       (/\ gen[g].pc \in {"returned", "raised"}
        /\ gen[g].raised_in # {}
        /\ gen[g].exc \notin OutsideFaults)
       => /\ gen[g].pc = "returned"
          /\ Range(gen[g].cands) \subseteq gen[g].started
          /\ digests[gen[g].digest_id].status # "failed"

\* C4 as stated: every digest follows pending, collecting, formatting, sent or
\* pending, collecting, sent or pending, collecting, failed.
C4_StatusPathsAsStated ==
    \A d \in DOMAIN status_log :
       \/ IsPrefix(status_log[d], <<"pending", "collecting", "formatting", "sent">>)
       \/ IsPrefix(status_log[d], <<"pending", "collecting", "sent">>)
       \/ IsPrefix(status_log[d], <<"pending", "collecting", "failed">>)

StatusSteps ==
    {<<"pending", "collecting">>, <<"pending", "failed">>,
     <<"collecting", "formatting">>, <<"collecting", "sent">>, <<"collecting", "failed">>,
     <<"formatting", "sent">>, <<"formatting", "failed">>}

\* C4 amended: the first status persisted for a digest is pending; pending is
\* followed only by collecting or failed, collecting only by formatting, sent
\* or failed, and formatting only by sent or failed.
C4_StatusPaths ==
    \A d \in DOMAIN status_log :
       /\ status_log[d][1] = "pending"
       /\ \A k \in 1..(Len(status_log[d]) - 1) :
             status_log[d][k] \in {"pending", "collecting", "formatting"}
                => <<status_log[d][k], status_log[d][k + 1]>> \in StatusSteps

\* C4 witness: a digest that failed while formatting.
C4_Witness ==
    \E d \in DOMAIN status_log :
       status_log[d] = <<"pending", "collecting", "formatting", "failed">>

\* C5: no status is persisted for a digest after sent or failed.
C5_TerminalStatuses ==
    \A d \in DOMAIN status_log :
       \A k \in 1..(Len(status_log[d]) - 1) : status_log[d][k] \notin {"sent", "failed"}

C7_EmptyDigest ==
    \A g \in Gens :
       LET d == gen[g].digest_id
       IN  (d \in DOMAIN digests /\ gen[g].all_items = {}) =>
              /\ \A k \in DOMAIN status_log[d] : status_log[d][k] # "formatting"
              /\ Published(gen[g].log, "DigestReady") = {}
              /\ d \notin ready
              /\ \A r \in digest_items : r.digest_id # d
              /\ gen[g].pc = "returned" =>
                    /\ status_log[d] = <<"pending", "collecting", "sent">>
                    /\ digests[d].status = "sent"
                    /\ digests[d].item_count = 0
                    /\ Published(gen[g].log, "DigestFailed") = {}
                    /\ gen[g].ret = d

\* C7 witness: an empty digest returned although a source delivered an item
\* (nothing changed) and another source failed.
C7_Witness ==
    \E g \in Gens :
       /\ gen[g].pc = "returned"
       /\ gen[g].all_items = {}
       /\ gen[g].raised_in # {}
       /\ \E k \in DOMAIN gen[g].log :
             gen[g].log[k].type = "CollectionCompleted" /\ gen[g].log[k].n1 > 0

Takes == Len(taken') = Len(taken) + 1

\* Task t completes the dispatch of its event in the step.
Completes(t) == tasks[t].pc = "gather" /\ tasks'[t].pc \in {"wait", "done"}

\* C9: on a started bus, the calls scheduled for an event taken from the queue
\* are the registrations of its exact type at that moment, in their order; no
\* call is invoked more than once; a raised call leaves every sibling call
\* scheduled, started, returned or raised; and when the dispatch of the event
\* completes every call was invoked exactly once and has returned or raised.
C9_EachRegistrationInvokedOnce ==
    /\ [](\A t \in DOMAIN tasks :
            tasks[t].pc = "gather" =>
               \A k \in DOMAIN tasks[t].calls :
                  /\ tasks[t].calls[k].state \in {"scheduled", "started", "returned", "raised"}
                  /\ tasks[t].calls[k].count <= 1
                  /\ tasks[t].calls[k].state = "scheduled" <=> tasks[t].calls[k].count = 0)
    /\ [][Takes =>
            LET event == Head(queue)
                regs == handlers[event.type]
            IN  /\ taken' = Append(taken, event.id)
                /\ regs # <<>> =>
                      \E t \in DOMAIN tasks :
                         /\ tasks[t].pc = "wait" /\ tasks'[t].pc = "gather"
                         /\ tasks'[t].event = event
                         /\ DOMAIN tasks'[t].calls = DOMAIN regs
                         /\ \A k \in DOMAIN regs :
                               tasks'[t].calls[k] =
                                  [handler |-> regs[k], state |-> "scheduled", count |-> 0]
                /\ regs = <<>> =>
                      \A t \in DOMAIN tasks : tasks'[t].pc # "gather" \/ tasks[t].pc = "gather"]_vars
    /\ [][\A t \in DOMAIN tasks :
            Completes(t) =>
               \A k \in DOMAIN tasks[t].calls :
                  /\ tasks[t].calls[k].count = 1
                  /\ tasks[t].calls[k].state \in {"returned", "raised"}]_vars

\* C9 witness: of the two handlers of an event the first has raised and the
\* second has been invoked and has returned.
C9_Witness ==
    \E t \in DOMAIN tasks :
       /\ tasks[t].pc = "gather"
       /\ Len(tasks[t].calls) = 2
       /\ tasks[t].calls[1].state = "raised"
       /\ tasks[t].calls[2].state = "returned"
       /\ tasks[t].calls[2].count = 1

\* C10: the queue never holds more than max_queue_size events; a call of
\* publish_nowait never suspends, returns False and leaves the queue as it is
\* when the queue is full, and returns True and appends the event otherwise; a
\* call of publish suspends and leaves the queue as it is when the queue is
\* full, and appends the event without suspending otherwise; a suspended
\* publish keeps its event until a slot is free and then appends it.
C10_QueueBounded ==
    /\ [](Len(queue) <= max_queue_size)
    /\ [][\A p \in Publishers :
            LET calls == pub[p].pc = "idle" /\ pub'[p] # pub[p]
                resumes == pub[p].pc = "suspended" /\ pub'[p].pc = "idle"
                wasfull == Len(queue) = max_queue_size
            IN  /\ (calls /\ pub'[p].op = "publish_nowait") =>
                      /\ pub'[p].pc = "idle"
                      /\ IF wasfull
                         THEN pub'[p].ret = FALSE /\ queue' = queue
                         ELSE pub'[p].ret = TRUE /\ queue' = Append(queue, pub'[p].event)
                /\ (calls /\ pub'[p].op = "publish") =>
                      IF wasfull
                      THEN pub'[p].pc = "suspended" /\ queue' = queue
                      ELSE pub'[p].pc = "idle" /\ queue' = Append(queue, pub'[p].event)
                /\ resumes =>
                      /\ Len(queue) < max_queue_size
                      /\ queue' = Append(queue, pub[p].event)
                /\ (pub[p].pc = "suspended" /\ ~resumes) => pub'[p] = pub[p]]_vars

\* C10 witness: the queue is full, one publisher is suspended in publish and
\* the publish_nowait of the other has returned False, its event in no queue.
C10_Witness ==
    \E p \in Publishers, q \in Publishers :
       /\ Len(queue) = max_queue_size
       /\ pub[p].pc = "suspended"
       /\ pub[q].pc = "idle" /\ pub[q].op = "publish_nowait" /\ pub[q].ret = FALSE
       /\ \A k \in DOMAIN accepted : accepted[k] # pub[q].event.id

\* The step invokes a handler of the event task t dispatches.
Invokes(t) ==
    /\ tasks[t].pc = "gather" /\ tasks'[t].pc = "gather"
    /\ \E k \in DOMAIN tasks[t].calls : tasks'[t].calls[k].count > tasks[t].calls[k].count

QueuedIds == [k \in DOMAIN queue |-> queue[k].id]

\* C11: with one dispatcher and any interleaving of the publishers, events leave
\* the queue in the order in which they were accepted; a handler is invoked
\* only for the event taken last, and the next event is taken only when the
\* dispatch of the one before is complete, so every handler of an event
\* accepted earlier is invoked before any handler of an event accepted later.
C11_PublishOrder ==
    /\ [](accepted = taken \o QueuedIds)
    /\ [](\A t \in DOMAIN tasks :
            tasks[t].pc = "gather" => tasks[t].event.id = taken[Len(taken)])
    /\ [][Takes => \A t \in DOMAIN tasks : tasks[t].pc # "gather"]_vars
    /\ [][\A t \in DOMAIN tasks :
            Invokes(t) => tasks[t].event.id = taken[Len(taken)]]_vars

\* C11 witness: four events were accepted in an order that differs from the
\* order of the publish calls (a suspended publish was overtaken), all were
\* taken, and the handler of the last one is running.
C11_Witness ==
    /\ Len(accepted) = 4
    /\ taken = accepted
    /\ \E k \in 1..3 : accepted[k] > accepted[k + 1]
    /\ \E t \in DOMAIN tasks :
          /\ tasks[t].pc = "gather"
          /\ tasks[t].event.id = accepted[4]
          /\ tasks[t].calls[1].state = "started"

\* C12: when stop() leaves its wait for the queue and no dispatcher step is
\* pending (the one dispatcher that was started has ended, no handler is
\* running), every event that was in the queue when stop() was called has
\* been taken from the queue and dispatched.
C12_StopDrainsQueue ==
    [][(/\ stopper.pc = "join" /\ stopper'.pc # "join"
        /\ Len(tasks) = 1 /\ tasks[1].pc = "done")
          => Len(taken) >= stopper.seen]_vars

\* The dispatcher tasks that are in the loop of _worker.
Dispatchers == {t \in DOMAIN tasks : tasks[t].pc \in {"wait", "gather"}}

\* C13: under any interleaving of start() and stop(), at most one dispatcher
\* task is in the loop that reads the queue, and start() on a running bus
\* creates no task.
C13_OneDispatcher ==
    /\ [](Cardinality(Dispatchers) <= 1)
    /\ [][running => Len(tasks') = Len(tasks)]_vars

\* The step begins the handling of an event in slot a.
Begins(a) == alert[a].pc \in Over /\ alert'[a] # alert[a]

\* The entries of the log for source s of the kinds given, as indices.
Entries(s, kinds) ==
    {k \in DOMAIN alert_log : alert_log[k].source_id = s /\ alert_log[k].kind \in kinds}

\* The last entry before k of source s that recorded a time.
LastRecorded(s, k) ==
    LET before == {j \in Entries(s, {"delivered", "undelivered"}) : j < k}
    IN  IF before = {} THEN NULL ELSE CHOOSE j \in before : \A i \in before : i <= j

\* C14: for events handled one after another, an event is suppressed exactly
\* when a time is recorded for its source and less than ALERT_COOLDOWN has
\* passed since; a suppressed event sends nothing and leaves the recorded times
\* as they are; any other event ends with a notification whose time becomes the
\* recorded time of its source.  So the notifications of a source are at least
\* ALERT_COOLDOWN apart and a suppressed event lies less than ALERT_COOLDOWN
\* after the last notification of its source.
C14_CooldownWindow ==
    /\ [][Begins(1) =>
            LET s == alert'[1].source_id
                recent == last_alerts[s] # NULL /\ now_utc - last_alerts[s] < ALERT_COOLDOWN
            IN  IF recent
                THEN /\ alert'[1].pc = "returned"
                     /\ last_alerts' = last_alerts
                     /\ Len(alert_log') = Len(alert_log) + 1
                     /\ alert_log'[Len(alert_log')].kind = "suppressed"
                     /\ alert_log'[Len(alert_log')].source_id = s
                ELSE /\ alert'[1].pc = "lookup"
                     /\ alert_log' = alert_log]_vars
    /\ [](alert[1].pc \in {"idle", "lookup", "send", "returned"})
    /\ [](alert[1].pc = "returned" =>
            LET last == alert_log[Len(alert_log)]
            IN  /\ last.source_id = alert[1].source_id
                /\ last.kind \in {"suppressed", "delivered"}
                /\ last.kind = "delivered" => last_alerts[last.source_id] = last.at)
    /\ [](\A s \in AlertSources :
            /\ \A j \in Entries(s, {"delivered"}), k \in Entries(s, {"delivered"}) :
                  j < k => alert_log[k].at - alert_log[j].at >= ALERT_COOLDOWN
            /\ \A k \in Entries(s, {"suppressed"}) :
                  /\ LastRecorded(s, k) # NULL
                  /\ alert_log[k].at - alert_log[LastRecorded(s, k)].at < ALERT_COOLDOWN)

\* C14 witness: three events of source 1, the first notified, the second
\* suppressed inside the window, and the third notified when the window since
\* the first had passed, less than a window after the suppressed one.
C14_Witness ==
    /\ Len(alert_log) = 3
    /\ \A k \in 1..3 : alert_log[k].source_id = 1
    /\ alert_log[1].kind = "delivered"
    /\ alert_log[2].kind = "suppressed"
    /\ alert_log[3].kind = "delivered"
    /\ alert_log[3].at - alert_log[1].at = ALERT_COOLDOWN
    /\ alert_log[3].at - alert_log[2].at < ALERT_COOLDOWN

\* C15: under every interleaving of the invocations of the handler, two
\* notifications of one source are at least ALERT_COOLDOWN apart.
C15_OneNotificationPerWindow ==
    \A s \in AlertSources :
       \A j \in Entries(s, {"delivered"}), k \in Entries(s, {"delivered"}) :
          j < k => alert_log[k].at - alert_log[j].at >= ALERT_COOLDOWN

\* C16: when the notification is not delivered (send_message returns no
\* message id or raises) the handler returns without raising and the recorded
\* times stay as they were.
C16_RecordedOnlyOnDelivery ==
    [][\A a \in AlertSlots :
         (/\ alert[a].pc \in {"lookup", "send"}
          /\ Len(alert_log') = Len(alert_log) + 1
          /\ alert_log'[Len(alert_log')].kind \in {"undelivered", "send raised"})
            => /\ alert'[a].pc = "returned"
               /\ last_alerts' = last_alerts]_vars

\* C17: a step of the handling of an event of one source leaves the recorded
\* time of every other source as it was, and an event is suppressed exactly
\* when the entry of its own source is less than ALERT_COOLDOWN old, whatever
\* the entries of the other sources are.
C17_CooldownPerSource ==
    /\ [][\A a \in AlertSlots :
            alert'[a] # alert[a] =>
               \A b \in AlertSources \ {alert'[a].source_id} :
                  last_alerts'[b] = last_alerts[b]]_vars
    /\ [][\A a \in AlertSlots :
            Begins(a) =>
               LET own == last_alerts[alert'[a].source_id]
               IN  alert'[a].pc = "returned" <=>
                      (own # NULL /\ now_utc - own < ALERT_COOLDOWN)]_vars

\* C17 witness: a notification of source 1 was followed inside its window by
\* an event of source 2, which was notified, and by an event of source 1,
\* which was suppressed; the recorded time of source 1 is that of its
\* notification.
C17_Witness ==
    /\ Len(alert_log) = 3
    /\ alert_log[1].source_id = 1 /\ alert_log[1].kind = "delivered"
    /\ alert_log[2].source_id = 2 /\ alert_log[2].kind = "delivered"
    /\ alert_log[3].source_id = 1 /\ alert_log[3].kind = "suppressed"
    /\ alert_log[2].at - alert_log[1].at < ALERT_COOLDOWN
    /\ last_alerts[1] = alert_log[1].at
    /\ last_alerts[2] = alert_log[2].at

\* C18: an event that is not suppressed always reaches the call of
\* send_message: the handler does not raise, and when the source is not found
\* or the lookup fails the notification carries the placeholder name.
C18_AlertDespiteLookupFailure ==
    /\ \A a \in AlertSlots : alert[a].pc # "raised"
    /\ \A k \in DOMAIN alert_log :
          alert_log[k].kind # "suppressed" =>
             /\ alert_log[k].kind \in {"delivered", "undelivered", "send raised"}
             /\ alert_log[k].name \in {SourceName(alert_log[k].source_id),
                                        UnknownName(alert_log[k].source_id)}

\* C19: when the dispatch of an event in which a handler raised completes, the
\* dispatcher is still in its loop, the event is acknowledged (task_done) and
\* no publisher is affected.
C19_HandlerExceptionContained ==
    [][\A t \in DOMAIN tasks :
         (Completes(t) /\ \E k \in DOMAIN tasks[t].calls : tasks[t].calls[k].state = "raised")
            => /\ tasks'[t].pc = "wait"
               /\ unfinished' = unfinished - 1
               /\ pub' = pub]_vars

\* C20: the handlers called for an event taken from the queue are handlers
\* registered for its exact type at that moment, and the event and the handlers
\* of a dispatch do not change while it lasts; an event whose type has no
\* handler leaves the queue and is acknowledged in the same step, no call is
\* made and the dispatcher stays as it was, waiting for the next event.
C20_ExactTypeOnly ==
    /\ [][Takes =>
            LET event == Head(queue)
                regs == handlers[event.type]
            IN  /\ queue' = Tail(queue)
                /\ IF regs = <<>>
                   THEN /\ tasks' = tasks
                        /\ unfinished' = unfinished - 1
                   ELSE \E t \in DOMAIN tasks :
                           /\ tasks[t].pc = "wait" /\ tasks'[t].pc = "gather"
                           /\ tasks'[t].event = event
                           /\ \A k \in DOMAIN tasks'[t].calls :
                                 tasks'[t].calls[k].handler \in Range(regs)]_vars
    /\ [][\A t \in DOMAIN tasks :
            (tasks[t].pc = "gather" /\ tasks'[t].pc = "gather") =>
               /\ tasks'[t].event = tasks[t].event
               /\ DOMAIN tasks'[t].calls = DOMAIN tasks[t].calls
               /\ \A k \in DOMAIN tasks[t].calls :
                     tasks'[t].calls[k].handler = tasks[t].calls[k].handler]_vars
    /\ [](\A t \in DOMAIN tasks : tasks[t].pc = "wait" => tasks[t].calls = <<>>)

\* C20 witness: the one event published is of type CollectorFailed, which has no
\* handler, while two handlers are registered for DigestReady; the event has
\* left the queue and is acknowledged, and the dispatcher waits for the next.
C20_Witness ==
    /\ handlers["CollectorFailed"] = <<>>
    /\ handlers["DigestReady"] = <<"h1", "h2">>
    /\ published = 1 /\ pub[1].event.type = "CollectorFailed"
    /\ taken = <<1>> /\ queue = <<>> /\ unfinished = 0
    /\ \E t \in DOMAIN tasks : tasks[t].pc = "wait"

\* A row without the time of its last fetch.
Stored(r) ==
    [id |-> r.id, source_id |-> r.source_id, external_id |-> r.external_id,
     title |-> r.title, content |-> r.content, content_hash |-> r.content_hash]

\* What one upsert of item must do to the table it finds.
Upserted(item, id) ==
    LET before == {r \in item_rows : ItemKey(r) = ItemKey(item)}
        after == {r \in item_rows' : ItemKey(r) = ItemKey(item)}
    IN  /\ \E r \in after :
               /\ after = {r}
               /\ r.id = id
               /\ r.title = item.title
               /\ r.content = item.content
               /\ r.content_hash = item.content_hash
               /\ \A b \in before : b.id = id
               /\ before = {} => id \notin {b.id : b \in item_rows}
        /\ {r \in item_rows' : ItemKey(r) # ItemKey(item)}
               = {r \in item_rows : ItemKey(r) # ItemKey(item)}

\* C21: the items table never holds two rows with the same (source_id,
\* external_id); an upsert of an existing key, alone or within upsert_many,
\* overwrites title, content and content_hash of its row and returns the id
\* the row already had, an upsert of a new key adds one row with an unused id,
\* and no other row changes; upsert_many returns, in order, the ids of the
\* rows that hold the keys of its items; upserting an item a second time
\* changes nothing but the fetch time and returns the same id.
C21_UpsertIdempotent ==
    /\ [](\A r1, r2 \in item_rows : ItemKey(r1) = ItemKey(r2) => r1 = r2)
    /\ [][\A item \in ItemInputs : Upsert(item) => Upserted(item, returned')]_vars
    /\ [][UpsertNext =>
              Upserted(Head(batch.pending), batch'.ids[Len(batch'.ids)])]_vars
    /\ [](batch.pc = "returned" =>
              /\ Len(batch.ids) = Len(batch.done)
              /\ \A k \in 1..Len(batch.done) : \E r \in item_rows :
                     r.id = batch.ids[k] /\ ItemKey(r) = batch.done[k])
    /\ [](\A item \in ItemInputs :
              LET once == ItemRepositoryImpl_upsert(item_rows, item, upserts + 1, upserts + 1)
                  twice == ItemRepositoryImpl_upsert(once.rows, item, upserts + 2, upserts + 2)
              IN  /\ {Stored(r) : r \in twice.rows} = {Stored(r) : r \in once.rows}
                  /\ twice.id = once.id)

\* C21 witness: an upsert_many that gave the key of the one stored row twice
\* returned the id of that row twice and left it the only row, with the title,
\* content and hash given last.
C21_Witness ==
    /\ batch.pc = "returned"
    /\ batch.ids = <<1, 1>>
    /\ \E r \in item_rows :
           /\ item_rows = {r}
           /\ r.id = 1 /\ r.fetched_at = 3
           /\ r.title = "t2" /\ r.content = "c2" /\ r.content_hash = "h2"

\* The dict m with its pairs inserted in the order p.
Permuted(m, p) == [k \in DOMAIN m |-> m[p[k]]]

\* C22: the hash of a content map is the same for every insertion order of
\* its keys, and two maps over title, status, priority, assignee and
\* updated_at have the same hash only when they agree on all five values.
C22_HashOfContent ==
    hash_content # <<>> =>
        /\ \A p \in Permutations(DOMAIN hash_content) :
               compute_content_hash(Permuted(hash_content, p)) = content_hash
        /\ \A t2, s2, p2, a2, u2 \in FieldValues :
               LET other == HashContent(t2, s2, p2, a2, u2)
               IN  other # hash_content => compute_content_hash(other) # content_hash

\* C22 witness: an item titled "null" with no status was hashed.
C22_Witness ==
    /\ hash_content # <<>>
    /\ Value(hash_content, "title") = Str("null")
    /\ Value(hash_content, "status") = None
    /\ content_hash = compute_content_hash(hash_content)

\* The classes registered for a tag, in the order of their registration.
RegisteredFor(tag) ==
    SelectSeq(registrations, LAMBDA r : r[1] = tag)

\* C23: get and create never raise; for a tag nothing was registered for
\* they return None, for any other tag get returns the class registered
\* last for it and create returns an instance of that class that no earlier
\* create returned; get and create leave the registry as it is.
C23_RegistryResolution ==
    /\ [](resolved.op \in {"get", "create"} =>
              LET regs == RegisteredFor(resolved.tag)
              IN  /\ resolved.ret.kind # "raise"
                  /\ regs = <<>> => resolved.ret = NoneValue
                  /\ regs # <<>> =>
                         /\ resolved.ret.kind = (IF resolved.op = "get" THEN "class"
                                                 ELSE "instance")
                         /\ resolved.ret.class = regs[Len(regs)][2])
    /\ [][\A tag \in RegistryTags :
              RegistryGet(tag) \/ RegistryCreate(tag) =>
                  /\ collectors' = collectors
                  /\ resolved'.ret.kind = "instance" => resolved'.ret.id \notin instances]_vars

\* C23 witness: after two classes were registered for one tag, create has
\* returned a second instance of the class registered last, and then a tag
\* nothing was registered for was resolved.
C23_Witness ==
    /\ Len(RegisteredFor("jira")) = 2
    /\ RegisteredFor("jira")[1] # RegisteredFor("jira")[2]
    /\ instances = {1, 2}
    /\ resolved.op = "create" /\ resolved.tag = "slack" /\ resolved.ret = NoneValue
    /\ RegisteredFor("slack") = <<>>

\* The alerts handed to the notification collaborator (send_message called),
\* the CollectorFailed events published and the error records of source s.
AlertsSent(s) ==
    Cardinality({k \in DOMAIN alert_log :
                    /\ alert_log[k].source_id = s
                    /\ alert_log[k].kind \in {"delivered", "undelivered", "send raised"}})
FailuresPublished(s) ==
    Cardinality({k \in DOMAIN accepted :
                    /\ gen[1].log[accepted[k]].type = "CollectorFailed"
                    /\ gen[1].log[accepted[k]].source_id = s})
ErrorRecords(s) ==
    Cardinality({k \in DOMAIN collector_errors : collector_errors[k].source_id = s})

\* The end of the scenario: the digest is sent and empty, one record, one
\* event, one alert, and the dispatcher has acknowledged every event.
EndToEndDone ==
    /\ gen[1].pc = "returned"
    /\ status_log[1] = <<"pending", "collecting", "sent">>
    /\ digests[1].status = "sent" /\ digests[1].item_count = 0
    /\ ErrorRecords(2) = 1
    /\ collector_errors[1].error_type = "auth" /\ ~collector_errors[1].resolved
    /\ FailuresPublished(2) = 1
    /\ AlertsSent(2) = 1

\* C24: with the bus started and the alert handler subscribed, a
\* generate_digest whose only active source raises AuthenticationError takes
\* its digest through pending, collecting, sent with item_count 0, creates one
\* error record for the source, publishes one CollectorFailed, and in the end
\* one alert has been handed to the notification collaborator; at no time
\* is there more than one record, event or alert.
C24_EndToEnd ==
    /\ [](/\ ErrorRecords(2) <= 1
          /\ FailuresPublished(2) <= 1
          /\ AlertsSent(2) <= 1
          /\ \A d \in DOMAIN status_log :
                 IsPrefix(status_log[d], <<"pending", "collecting", "sent">>))
    /\ (gen[1].pc = "update_collecting") ~> EndToEndDone
    /\ [](EndToEndDone => []EndToEndDone)

\* C24 witness: the scenario has ended, with the alert delivered after the
\* digest was marked sent, and nothing is left to dispatch.
C24_Witness ==
    /\ EndToEndDone
    /\ alert_log[1].kind = "delivered"
    /\ unfinished = 0 /\ queue = <<>>
    /\ Len(taken) = 2

\* C25: an event that was in the queue when stop() gave up waiting for the
\* queue to drain is never taken from the queue once that stop() has
\* returned, whether or not the bus is started again.
C25_LeftOverDiscarded ==
    [][stopper.pc = "idle" =>
           \A k \in DOMAIN taken' : k > Len(taken) => taken'[k] \notin left_over]_vars

\* The events a run published about source s, in order.
AboutSource(g, s) ==
    SelectSeq(gen[g].log,
              LAMBDA e : /\ e.source_id = s
                         /\ e.type \in {"CollectionStarted", "CollectionCompleted",
                                        "CollectorFailed"})

\* The steps of _collect_from_source past the resolution of the collector.
SourceSteps ==
    {"collect", "upsert", "update_last_synced", "mark_all_resolved", "get_changed",
     "record_error", "close"}

\* The run has left _collect_from_source(s).
SourceOver(g, s) ==
    s \in gen[g].started /\ (gen[g].source # s \/ gen[g].pc \notin SourceSteps)

\* C26: the events a run publishes about a source begin with
\* CollectionStarted(source, digest); CollectionCompleted and CollectorFailed
\* are never both published; a CollectionCompleted carries the number of
\* collected items and the size of the changed set, a CollectorFailed the
\* kind of the error; and once the run has left a source whose collector was
\* resolved, exactly one of the two has been published for it.
C26_CollectionEvents ==
    /\ \A g \in Gens : \A s \in gen[g].started :
           LET about == AboutSource(g, s)
           IN  /\ about # <<>>
               /\ about[1] = CollectionStarted(s, gen[g].digest_id)
               /\ Len(about) <= 2
               /\ Len(about) = 2 =>
                      \/ /\ about[2].type = "CollectionCompleted"
                         /\ about[2].digest_id = gen[g].digest_id
                         /\ about[2].n1 <= Cardinality(ItemsOf(s))
                         /\ about[2].n2 <= Cardinality(ItemsOf(s))
                      \/ /\ about[2].type = "CollectorFailed"
                         /\ about[2].text \in CollectorErrorTypes \cup {"unexpected"}
               /\ (SourceOver(g, s) /\ CollectorRegistry_create(SourceType(s)))
                      => Len(about) = 2
    /\ \A g \in Gens :
           gen[g].pc = "close" /\ gen[g].exc = "" /\ gen[g].src_exc = "" =>
               LET about == AboutSource(g, gen[g].source)
               IN  /\ Len(about) = 2
                   /\ about[2] = CollectionCompleted(gen[g].source, gen[g].digest_id,
                                                     Cardinality(gen[g].collected),
                                                     Cardinality(gen[g].result))
    /\ \A g \in Gens :
           gen[g].pc = "close" /\ gen[g].exc = "" /\ gen[g].src_exc # "" =>
               LET about == AboutSource(g, gen[g].source)
               IN  /\ Len(about) = 2
                   /\ about[2] = CollectorFailed(gen[g].source, gen[g].src_exc)

\* The sources whose type has no registered collector.
NoCollector == {s \in Sources : SourceType(s) \notin Registered}

\* The position of source s in the list the loop runs over.
Position(r, s) == CHOOSE k \in DOMAIN r.cands : r.cands[k] = s

\* The for loop has gone past source s: the next source of the list is
\* started, or s was the last one and the run is past the loop.
LoopContinued(r, s) ==
    IF Position(r, s) < Len(r.cands)
    THEN r.cands[Position(r, s) + 1] \in r.started
    ELSE r.pc \notin SourceSteps

ErrorRecordsOf(errs, s) == SelectSeq(errs, LAMBDA e : e.source_id = s)

\* C27: a source whose type has no registered collector is a soft no-op.
\* CollectionStarted is the only event about it, it is never recorded as
\* raised, nothing of it is in the merged item set, and the loop has gone on
\* to the next source in the step that started it; no step of any run
\* changes its last_synced_at, its stored items or its Collector-Error
\* records.
C27_NoCollectorNoOp ==
    /\ [](\A g \in Gens : \A s \in gen[g].started \cap NoCollector :
             /\ AboutSource(g, s) = <<CollectionStarted(s, gen[g].digest_id)>>
             /\ s \notin gen[g].raised_in
             /\ \A p \in gen[g].all_items : p[3] # s /\ ItemSource(p[1]) # s
             /\ LoopContinued(gen[g], s))
    /\ [][\A s \in NoCollector :
             /\ last_synced_at'[s] = last_synced_at[s]
             /\ \A i \in ItemsOf(s) : items'[i] = items[i]
             /\ ErrorRecordsOf(collector_errors', s) = ErrorRecordsOf(collector_errors, s)]_vars

\* A run over slack, jira, gmail in this order has completed with items of
\* the later sources, while the stored item of the slack source is one the
\* changed-set query would return.
C27_Witness ==
    /\ gen[1].pc = "returned"
    /\ gen[1].cands = <<3, 1, 2>>
    /\ gen[1].started = {1, 2, 3}
    /\ gen[1].all_items # {}
    /\ get_changed_since_last_digest(items, digests, digest_items, 3) # {}

\* The attempt of run g on its source ends in an except block because
\* collect or an upsert raised.
CollectOrUpsertRaises(g) ==
    gen[g].pc \in {"collect", "upsert"} /\ gen'[g].pc = "record_error"

\* C28: a step changes last_synced_at only of the source a run is at, when
\* collect has returned and every returned item is stored with the hash it
\* was returned with; and when collect or an upsert of the one generation
\* over the seeded database raises, last_synced_at and the stored items of
\* that source are what they were before the attempt.
C28_LastSyncedAfterUpsert ==
    [][/\ \A s \in Sources :
             last_synced_at'[s] # last_synced_at[s] =>
                 \E g \in Gens :
                     /\ gen[g].source = s
                     /\ gen[g].pc = "update_last_synced"
                     /\ gen[g].pending = <<>>
                     /\ \A p \in gen[g].collected : items[p[1]] = p[2]
       /\ \A g \in Gens :
             CollectOrUpsertRaises(g) =>
                 /\ last_synced_at'[gen[g].source] = SeedSynced[gen[g].source]
                 /\ \A i \in ItemsOf(gen[g].source) : items'[i] = SeedItems[i]]_vars

\* Run g leaves the except block of its source in this step.
AttemptFailed(g) == gen[g].pc = "record_error" /\ gen'[g].pc # "record_error"

\* Run g gets past mark_all_resolved in this step: collect, the upserts and
\* update_last_synced have returned.
Collected(g) == gen[g].pc = "mark_all_resolved" /\ gen'[g].pc = "get_changed"

\* CollectionCompleted was published for source s by run g.
CompletedFor(g, s) ==
    \E k \in DOMAIN gen[g].log :
        gen[g].log[k].type = "CollectionCompleted" /\ gen[g].log[k].source_id = s

\* C29: the step that ends a failed attempt appends one unresolved
\* Collector-Error record of that source and changes no other record; the
\* step that clears the errors of a collected source resolves every record
\* of that source and changes no record of another source; and a source for
\* which the one generation published CollectionCompleted has no unresolved
\* record.
C29_ErrorRecords ==
    /\ [][\A g \in Gens :
             /\ AttemptFailed(g) =>
                    collector_errors' =
                        Append(collector_errors,
                               [source_id |-> gen[g].source, error_type |-> gen[g].src_exc,
                                resolved |-> FALSE])
             /\ Collected(g) =>
                    /\ Len(collector_errors') = Len(collector_errors)
                    /\ \A k \in DOMAIN collector_errors :
                          IF collector_errors[k].source_id = gen[g].source
                          THEN collector_errors'[k] =
                                   [collector_errors[k] EXCEPT !.resolved = TRUE]
                          ELSE collector_errors'[k] = collector_errors[k]]_vars
    /\ [](\A g \in Gens : \A s \in Sources :
             CompletedFor(g, s) =>
                 \A k \in DOMAIN collector_errors :
                     collector_errors[k].source_id = s => collector_errors[k].resolved)

\* The ledger rows of digest d.
LedgerOf(d) == {r \in digest_items : r.digest_id = d}

\* generate_digest of slot g has returned by line 159.
CompletedNonEmpty(g) == gen[g].pc = "returned" /\ gen[g].all_items # {}

ReadyEvents(g) == SelectSeq(gen[g].log, LAMBDA e : e.type = "DigestReady")

\* C30: when generate_digest has returned on the non-empty path, the ledger
\* rows of its digest are one per item of all_items, each with the hash the
\* item had in the changed set, no item has two rows, and the one
\* DigestReady event carries the number of rows; the rows of a digest
\* change only in the add_items step of the run of that digest, which finds
\* none.
C30_LedgerOfDigest ==
    /\ [](\A g \in Gens :
             CompletedNonEmpty(g) =>
                 LET d == gen[g].digest_id
                 IN  /\ LedgerOf(d) =
                            {[digest_id |-> d, item_id |-> p[1], content_hash_at_send |-> p[2]]
                                : p \in gen[g].all_items}
                     /\ \A r1, r2 \in LedgerOf(d) : r1.item_id = r2.item_id => r1 = r2
                     /\ Cardinality(LedgerOf(d)) = Cardinality(gen[g].all_items)
                     /\ Len(ReadyEvents(g)) = 1
                     /\ ReadyEvents(g)[1].digest_id = d
                     /\ ReadyEvents(g)[1].n1 = Cardinality(LedgerOf(d)))
    /\ [][\A d \in DOMAIN digests :
             LedgerOf(d)' # LedgerOf(d) =>
                 /\ LedgerOf(d) = {}
                 /\ \E g \in Gens : gen[g].pc = "add_items" /\ gen[g].digest_id = d]_vars

\* The generation over the seeded database has returned with three items,
\* among them item 1 with another hash than the one the ledger of the
\* seeded digest holds, and that ledger is as it was.
C30_Witness ==
    /\ CompletedNonEmpty(1)
    /\ gen[1].digest_id = 2
    /\ Cardinality(gen[1].all_items) = 3
    /\ <<1, 2, 1>> \in gen[1].all_items
    /\ LedgerOf(1) = {[digest_id |-> 1, item_id |-> 1, content_hash_at_send |-> 1]}

\* The ledger without the rows of digests that are not sent and without the
\* rows of sent digests other than the one sent last with the item.
LatestSentOnly ==
    {r \in digest_items : /\ r.digest_id \in ShownIn(r.item_id)
                          /\ r.digest_id = MostRecentlySent(r.item_id)}

\* C31: the changed set of a source is what the query gives on the ledger
\* rows of the latest sent digest of each item alone; a stored item with no
\* row in a sent digest is in it whatever rows other digests hold, and an
\* item with such a row is in it exactly when the row of the digest sent last
\* differs from its hash, whatever the rows of digests sent earlier say.
C31_LatestSentDecides ==
    \A s \in Sources :
       LET changed == ChangedNow(s)
       IN  /\ changed = get_changed_since_last_digest(items, digests, LatestSentOnly, s)
           /\ \A i \in ItemsOf(s) :
                 items[i] # NULL =>
                    IF ShownIn(i) = {}
                    THEN <<i, items[i]>> \in changed
                    ELSE (<<i, items[i]>> \in changed)
                            <=> (HashShown(MostRecentlySent(i), i) # items[i])

\* A run has put an item into the changed set of its source whose hash is
\* the one an earlier sent digest showed, while the digest sent last showed
\* another.
C31_Witness ==
    \E g \in Gens, i \in Items :
       /\ gen[g].pc = "close"
       /\ <<i, items[i]>> \in gen[g].result
       /\ \E d \in ShownIn(i) : d # MostRecentlySent(i) /\ HashShown(d, i) = items[i]
       /\ HashShown(MostRecentlySent(i), i) # items[i]

ActiveSources == {s \in Sources : SourceIsActive(s)}

\* The run of slot g has read its candidate sources: line 100 has returned
\* (the calls before the loop return in SpecSources).
HasCandidates(g) ==
    gen[g].pc \notin {"idle", "update_collecting", "get_sources"}

\* C32: once a run has its candidate sources, they are the active sources
\* of the projects of project_ids when that is a non-empty list and all
\* active sources when it is None or empty, each once; the run starts only
\* candidates, and never an inactive source.
C32_CandidateSources ==
    \A g \in Gens :
       /\ gen[g].started \subseteq ActiveSources
       /\ HasCandidates(g) =>
              /\ Range(gen[g].cands) =
                     IF gen[g].project_ids = NoFilter \/ gen[g].project_ids = {}
                     THEN ActiveSources
                     ELSE {s \in ActiveSources : SourceProject(s) \in gen[g].project_ids}
              /\ Cardinality(Range(gen[g].cands)) = Len(gen[g].cands)
              /\ gen[g].started \subseteq Range(gen[g].cands)

\* A run for project p1 has returned after it started the two active sources
\* of p1 and no other.
C32_Witness ==
    /\ gen[1].pc = "returned"
    /\ gen[1].project_ids = {"p1"}
    /\ gen[1].started = {1, 3}
    /\ ActiveSources = {1, 2, 3}

\* The events of a run that are about one source.
PerSource == {"CollectionStarted", "CollectionCompleted", "CollectorFailed"}

\* The block of source s was over when entry k of the log was published:
\* its CollectionCompleted or CollectorFailed precedes k, or it has no
\* collector and was skipped.
BlockOverBefore(log, s, k) ==
    \/ s \in NoCollector
    \/ \E m \in 1..(k - 1) : /\ log[m].source_id = s
                              /\ log[m].type \in {"CollectionCompleted", "CollectorFailed"}

\* C33: in the events of one run, when CollectionStarted of a source is
\* published the block of every source started before it is over and no
\* event about such a source follows; the sources are started in the order
\* of the candidate list; and every event about a source precedes the
\* DigestReady of the run.
C33_SourcesInSequence ==
    \A g \in Gens :
       LET log == gen[g].log
           starts == SelectSeq(log, LAMBDA e : e.type = "CollectionStarted")
       IN  /\ \A k \in DOMAIN log : \A j \in 1..(k - 1) :
                 (log[k].type = "CollectionStarted" /\ log[j].type = "CollectionStarted") =>
                     /\ log[j].source_id # log[k].source_id
                     /\ BlockOverBefore(log, log[j].source_id, k)
                     /\ \A m \in DOMAIN log :
                           (m > k /\ log[m].type \in PerSource) =>
                               log[m].source_id # log[j].source_id
           /\ Len(starts) <= Len(gen[g].cands)
           /\ \A k \in DOMAIN starts : starts[k].source_id = gen[g].cands[k]
           /\ \A k \in DOMAIN log : \A j \in DOMAIN log :
                 (log[k].type = "DigestReady" /\ log[j].type \in PerSource) => j < k

\* A run over slack, jira and gmail has published DigestReady after the
\* jira source completed and the gmail source failed.
C33_Witness ==
    /\ gen[1].cands = <<3, 1, 2>>
    /\ gen[1].started = {1, 2, 3}
    /\ \E k \in DOMAIN gen[1].log : gen[1].log[k].type = "DigestReady"
    /\ \E k \in DOMAIN gen[1].log :
          gen[1].log[k].type = "CollectorFailed" /\ gen[1].log[k].source_id = 2
    /\ CompletedFor(1, 1)

\* How often handler h is in the list l, and l without it.
Count(l, h) == Cardinality({k \in DOMAIN l : l[k] = h})
Without(l, h) == SelectSeq(l, LAMBDA x : x # h)

\* C34: a step that changes the registrations changes the list of one type
\* only, and either appends one handler to it, or takes out one occurrence
\* of one handler that was in it and leaves the other handlers of the list
\* as they were; the calls scheduled for an event hold each handler as often
\* as it is registered for the type of the event, and when the dispatch
\* completes each of them was invoked once.
C34_RegistrationsWithMultiplicity ==
    /\ [][handlers' # handlers =>
            \E e \in EventTypes, h \in HandlerNames :
               /\ \A e2 \in EventTypes \ {e} : handlers'[e2] = handlers[e2]
               /\ \/ handlers'[e] = Append(handlers[e], h)
                  \/ /\ Count(handlers[e], h) > 0
                     /\ Count(handlers'[e], h) = Count(handlers[e], h) - 1
                     /\ Len(handlers'[e]) = Len(handlers[e]) - 1
                     /\ Without(handlers'[e], h) = Without(handlers[e], h)]_vars
    /\ [][Takes =>
            \A t \in DOMAIN tasks :
               (tasks[t].pc = "wait" /\ tasks'[t].pc = "gather") =>
                  \A h \in HandlerNames :
                     Cardinality({k \in DOMAIN tasks'[t].calls :
                                     tasks'[t].calls[k].handler = h})
                        = Count(handlers[Head(queue).type], h)]_vars
    /\ [][\A t \in DOMAIN tasks :
            Completes(t) => \A k \in DOMAIN tasks[t].calls : tasks[t].calls[k].count = 1]_vars

\* A handler subscribed twice was invoked twice for one event, and one of
\* its two registrations has been removed since the event was taken.
C34_Witness ==
    \E t \in DOMAIN tasks :
       /\ tasks[t].pc = "gather"
       /\ Len(tasks[t].calls) = 2
       /\ \A k \in DOMAIN tasks[t].calls :
             tasks[t].calls[k].handler = "h1" /\ tasks[t].calls[k].count = 1
       /\ handlers[tasks[t].event.type] = <<"h1">>

\* The handler invocations that have started and are not over.
RunningCalls ==
    {c \in {<<t, k>> : t \in DOMAIN tasks, k \in 1..MaxRegs} :
        c[2] \in DOMAIN tasks[c[1]].calls /\ tasks[c[1]].calls[c[2]].state = "started"}

\* C35: with the one dispatcher of a bus that is started once, at most one
\* event is being dispatched, it is the event taken last, a dispatcher that
\* is not inside the dispatch of an event has no call that is scheduled or
\* running, and all running calls belong to that one event, one per
\* registration: a handler registered once has at most one running call.
C35_OneEventAtATime ==
    /\ Cardinality({t \in DOMAIN tasks : tasks[t].pc = "gather"}) <= 1
    /\ \A t \in DOMAIN tasks :
          /\ tasks[t].pc = "gather" => tasks[t].event.id = taken[Len(taken)]
          /\ tasks[t].pc # "gather" =>
                \A k \in DOMAIN tasks[t].calls :
                   tasks[t].calls[k].state \in {"returned", "raised"}
    /\ \A c1 \in RunningCalls : \A c2 \in RunningCalls : c1[1] = c2[1]
    /\ \A h \in HandlerNames : \A t \in DOMAIN tasks :
          Cardinality({c \in RunningCalls :
                          c[1] = t /\ tasks[t].calls[c[2]].handler = h})
             <= Cardinality({k \in DOMAIN tasks[t].calls : tasks[t].calls[k].handler = h})

\* The two handlers of the second event run at the same time, after the
\* dispatch of the first event was completed.
C35_Witness ==
    \E t \in DOMAIN tasks :
       /\ tasks[t].pc = "gather"
       /\ Len(taken) = 2
       /\ Len(tasks[t].calls) = 2
       /\ tasks[t].calls[1].handler # tasks[t].calls[2].handler
       /\ RunningCalls = {<<t, 1>>, <<t, 2>>}

\* Event id was taken from the queue and its dispatch is complete.
Dispatched(id) ==
    /\ \E k \in DOMAIN taken : taken[k] = id
    /\ \A t \in DOMAIN tasks : ~(tasks[t].pc = "gather" /\ tasks[t].event.id = id)

\* C36: on a bus that is running, every event that was accepted by publish
\* or publish_nowait, before or after start(), is eventually taken by the
\* dispatcher and its dispatch completes; the calls made for it are those
\* of the handlers registered for its type when it is taken.
C36_EveryEventDispatched ==
    /\ \A id \in 1..MaxDeliveryEvents :
          ((\E k \in DOMAIN accepted : accepted[k] = id) /\ running) ~> Dispatched(id)
    /\ [][Takes =>
            \A t \in DOMAIN tasks :
               (tasks[t].pc = "wait" /\ tasks'[t].pc = "gather") =>
                  [k \in DOMAIN tasks'[t].calls |-> tasks'[t].calls[k].handler]
                     = handlers[Head(queue).type]]_vars

\* Every event of the run was accepted and its dispatch is complete, and
\* the dispatcher of the running bus waits for the next event.
C36_Witness ==
    /\ Len(accepted) = MaxDeliveryEvents
    /\ taken = accepted
    /\ \A id \in 1..MaxDeliveryEvents : Dispatched(id)
    /\ unfinished = 0
    /\ running
    /\ \E t \in DOMAIN tasks : tasks[t].pc = "wait"

\* The ledger of the digest of generation g holds a row for every item the
\* generation included, with the hash the item had.
LedgerWritten(g) ==
    \A p \in gen[g].all_items :
       \E r \in LedgerOf(gen[g].digest_id) :
          r.item_id = p[1] /\ r.content_hash_at_send = p[2]

\* C37: a digest that was announced by DigestReady and has status sent has
\* its ledger rows persisted for every included item, and no digest is set
\* to failed after it was set to sent.
C37_SentAfterLedger ==
    /\ \A g \in Gens :
          (/\ gen[g].digest_id \in ready
           /\ digests[gen[g].digest_id].status = "sent") => LedgerWritten(g)
    /\ \A d \in DOMAIN status_log :
          \A k \in 1..Len(status_log[d]), j \in 1..Len(status_log[d]) :
             (k < j /\ status_log[d][k] = "sent") => status_log[d][j] # "failed"

RegisteredIds == {r.id : r \in stored}
IdsOf(l) == {l[k].id : k \in DOMAIN l}
ActiveIdsOf(l) == {l[k].id : k \in {i \in DOMAIN l : l[i].is_active}}

\* sync_schedules(L) has returned on a scheduler that was started and had
\* its job function.
Synced == sched.op = "sync_schedules" /\ sched.pc = "returned" /\ sched.ready

\* C38: after sync_schedules(L) on a started scheduler, only active
\* schedules of L are registered, and all of them when no add failed; a call
\* on a started scheduler does not raise.
C38_SyncedToList ==
    /\ Synced =>
          /\ RegisteredIds \subseteq ActiveIdsOf(sched.arg)
          /\ sched.exc = "" => ActiveIdsOf(sched.arg) \subseteq RegisteredIds
    /\ (sched.op = "sync_schedules" /\ sched.ready) => sched.pc # "raised"

\* What sync_schedules does for the ids of L, whatever else is registered.
SyncedWithinList ==
    /\ Synced =>
          /\ RegisteredIds \cap IdsOf(sched.arg) \subseteq ActiveIdsOf(sched.arg)
          /\ sched.exc = "" => ActiveIdsOf(sched.arg) \subseteq RegisteredIds
    /\ (sched.op = "sync_schedules" /\ sched.ready) => sched.pc # "raised"

Under(st, id) == {r \in st : r.id = id}

C40_CollectorsClosedOnce ==
    \A g \in Gens :
       LET opened == gen[g].opened
           closed == gen[g].closed
       IN  /\ Len(closed) <= Len(opened)
           /\ \A k \in DOMAIN closed : closed[k] = opened[k]
           /\ \A i, j \in DOMAIN opened : i # j => opened[i] # opened[j]
           /\ Len(opened) <= Len(closed) + 1
           /\ Len(closed) < Len(opened) =>
                 /\ gen[g].pc \in SourceSteps
                 /\ opened[Len(opened)] = gen[g].source

\* generate_digest returned after a source that was collected and a source
\* whose collector raised; both collectors were closed.
C40_Witness ==
    \E g \in Gens :
       /\ gen[g].pc = "returned"
       /\ Len(gen[g].closed) = 2
       /\ gen[g].closed = gen[g].opened
       /\ Published(gen[g].log, "CollectionCompleted") # {}
       /\ Published(gen[g].log, "CollectorFailed") # {}

====
